---- MODULE Spec2Model ----
(***************************************************************************)
(* Land Explorer: the simulation core of javascript/game.js (regions,      *)
(* movement and crate pushing, the four puzzles, the tick loop) together   *)
(* with the persistence path of api/save.php, api/load.php and the         *)
(* game_saves table.                                                       *)
(*                                                                         *)
(* Numbers.  Coordinates and times are JavaScript doubles.  They are kept  *)
(* here as integers in units of 1/10000 pixel (and 1/10000 ms), which      *)
(* represents every value the code computes from its constants exactly:    *)
(* a straight step is 3 px, a diagonal step 3 * 0.7071 = 2.1213 px.        *)
(* Binary rounding error of the doubles is not modelled.                   *)
(***************************************************************************)
EXTENDS Integers, Sequences, FiniteSets, TLC

\* ------------------------------------------------------------ constants
U == 10000
TILE == 32 * U
COLS == 30
ROWS == 18
PlayerW == 24 * U
PlayerH == 24 * U
PlayerSpeed == 3 * U
\* dx *= 0.7071 on a diagonal: 3 * 0.7071 px
DiagSpeed == 3 * 7071
StartX == TILE * 3
StartY == TILE * 3
RegionW == COLS * TILE
RegionH == ROWS * TILE
Regions == 0..4
LastRegion == 4
NoNeighbour == -1

\* ------------------------------------------------------------- geometry
Rect(x, y, w, h) == [x |-> x, y |-> y, w |-> w, h |-> h]
TileAt(c, r) == Rect(c * TILE, r * TILE, TILE, TILE)
PlayerRect(x, y) == Rect(x, y, PlayerW, PlayerH)
CrateRect(c) == Rect(c.x, c.y, TILE, TILE)

Max(a, b) == IF a >= b THEN a ELSE b
Min(a, b) == IF a <= b THEN a ELSE b
clamp(v, a, b) == Max(a, Min(b, v))

\* JavaScript compares with NaN as false: a rectangle b without w (or h)
\* makes b.x + b.w NaN, so the test "a.x >= b.x + b.w" is false.
rectOverlap(a, b) ==
    ~(  a.x + a.w <= b.x
     \/ ("w" \in DOMAIN b /\ a.x >= b.x + b.w)
     \/ a.y + a.h <= b.y
     \/ ("h" \in DOMAIN b /\ a.y >= b.y + b.h))

\* Math.round of a value given in units, result in units (ties go up).
MathRound(v) == ((v + U \div 2) \div U) * U

\* -------------------------------------------------------- region graph
\* regionEdges[r] = [up, right, down, left]
regionEdges(r) ==
    CASE r = 0 -> <<NoNeighbour, 1, NoNeighbour, NoNeighbour>>
      [] r = 1 -> <<NoNeighbour, 2, NoNeighbour, 0>>
      [] r = 2 -> <<NoNeighbour, 3, NoNeighbour, 1>>
      [] r = 3 -> <<NoNeighbour, 4, NoNeighbour, 2>>
      [] r = 4 -> <<NoNeighbour, NoNeighbour, NoNeighbour, 3>>

monument == Rect((COLS \div 2) * TILE, (ROWS \div 2) * TILE, TILE, TILE)

\* ------------------------------------------------- generated content
Obstacles(r) ==
    CASE r = 0 -> <<Rect(12 * TILE, 7 * TILE, TILE, TILE)>>
      [] r = 1 -> <<Rect(22 * TILE, 5 * TILE, TILE * 2, TILE),
                    Rect(27 * TILE, 12 * TILE, TILE * 2, TILE)>>
      [] r = 2 -> <<Rect(15 * TILE, 6 * TILE, TILE * 2, TILE * 2),
                    Rect(20 * TILE, 3 * TILE, TILE * 3, TILE),
                    Rect(20 * TILE, 14 * TILE, TILE * 3, TILE)>>
      [] r = 3 -> <<Rect(26 * TILE, 7 * TILE, TILE * 3, TILE),
                    Rect(5 * TILE, 10 * TILE, TILE * 2, TILE * 2)>>
      [] r = 4 -> <<Rect(8 * TILE, 10 * TILE, TILE * 2, TILE * 2)>>

SeedTiles(r) ==
    CASE r = 0 -> <<TileAt(10, 6)>>
      [] r = 1 -> <<TileAt(24, 9)>>
      [] r = 2 -> <<TileAt(8, 4)>>
      [] r = 3 -> <<TileAt(12, 8), TileAt(18, 10)>>
      [] r = 4 -> <<>>

GeneratedCrates(r) ==
    CASE r = 0 -> <<[x |-> 6 * TILE, y |-> 6 * TILE]>>
      [] r = 2 -> <<[x |-> 12 * TILE, y |-> 4 * TILE],
                    [x |-> 12 * TILE, y |-> 12 * TILE]>>
      [] OTHER -> <<>>

Targets(r) ==
    IF r = 2 THEN <<TileAt(6, 6), TileAt(24, 12)>> ELSE <<>>

\* region 0: plates {x, y}
Plates == <<[x |-> 4 * TILE, y |-> 5 * TILE], [x |-> 8 * TILE, y |-> 5 * TILE]>>
\* region 1: pads {x, y} (no w, h: see padToExit in the update)
Pads == <<[x |-> 25 * TILE, y |-> 8 * TILE],
          [x |-> 26 * TILE, y |-> 8 * TILE],
          [x |-> 27 * TILE, y |-> 8 * TILE]>>
\* region 3: teleporters {x, y}
Teleporters == <<[x |-> 22 * TILE, y |-> 4 * TILE], [x |-> 8 * TILE, y |-> 14 * TILE]>>

HasPuzzle(r) == r \in 0..3
HasGate(r) == r \in 0..3
GateRect(r) == Rect(RegionW - 8 * U, 0, 16 * U, RegionH)

SizedTile(p) == Rect(p.x, p.y, TILE, TILE)

\* The least index of the set S of matching indices, or 0:
\* Array.prototype.find / findIndex.
FirstIndex(S) ==
    IF S = {} THEN 0 ELSE CHOOSE i \in S : \A j \in S : i <= j

\* ------------------------------------------- collision and movement
\* canRectMoveTo without its loop over the other crates
canRectMoveToIgnoringCrates(rect, r, cs, excludeCrate) ==
    /\ ~(rect.x < 0 \/ rect.y < 0 \/ rect.x + rect.w > RegionW \/ rect.y + rect.h > RegionH)
    /\ \A i \in 1..Len(Obstacles(r)) : ~rectOverlap(rect, Obstacles(r)[i])

canRectMoveTo(rect, r, cs, excludeCrate) ==
    /\ ~(rect.x < 0 \/ rect.y < 0 \/ rect.x + rect.w > RegionW \/ rect.y + rect.h > RegionH)
    /\ \A i \in 1..Len(Obstacles(r)) : ~rectOverlap(rect, Obstacles(r)[i])
    /\ \A i \in 1..Len(cs) : i = excludeCrate \/ ~rectOverlap(rect, CrateRect(cs[i]))

canPlayerMoveTo(nx, ny, r, gateClosed) ==
    LET rect == PlayerRect(nx, ny)
    IN  /\ \A i \in 1..Len(Obstacles(r)) : ~rectOverlap(rect, Obstacles(r)[i])
        /\ ~(HasGate(r) /\ gateClosed /\ rectOverlap(rect, GateRect(r)))
        /\ ~(nx < -TILE \/ ny < -TILE \/ nx + PlayerW > RegionW + TILE \/ ny + PlayerH > RegionH + TILE)

\* The crate the attempted rectangle collides with: r.crates.find(...)
collidedCrate(x, y, cs) ==
    FirstIndex({i \in 1..Len(cs) : rectOverlap(PlayerRect(x, y), CrateRect(cs[i]))})

\* the horizontal attempt committing the player's step whether or not the
\* crate could be moved
attemptHorizontalForced(x, y, cs, r, gateClosed, dx, c) ==
    IF c # 0
    THEN IF canRectMoveTo(Rect(cs[c].x + dx, cs[c].y, TILE, TILE), r, cs, c)
         THEN [x |-> x + dx, crates |-> [cs EXCEPT ![c].x = @ + dx]]
         ELSE [x |-> x + dx, crates |-> cs]
    ELSE IF canPlayerMoveTo(x + dx, y, r, gateClosed)
         THEN [x |-> x + dx, crates |-> cs]
         ELSE [x |-> x, crates |-> cs]

\* Horizontal attempt of movePlayer, c being the collided crate (0: none):
\* [x, crates] after it.
attemptHorizontal(x, y, cs, r, gateClosed, dx, c) ==
    IF c # 0
    THEN IF canRectMoveTo(Rect(cs[c].x + dx, cs[c].y, TILE, TILE), r, cs, c)
         THEN [x |-> x + dx, crates |-> [cs EXCEPT ![c].x = @ + dx]]
         ELSE [x |-> x, crates |-> cs]
    ELSE IF canPlayerMoveTo(x + dx, y, r, gateClosed)
         THEN [x |-> x + dx, crates |-> cs]
         ELSE [x |-> x, crates |-> cs]

moveHorizontal(x, y, cs, r, gateClosed, dx) ==
    IF dx = 0 THEN [x |-> x, crates |-> cs]
    ELSE attemptHorizontal(x, y, cs, r, gateClosed, dx, collidedCrate(x + dx, y, cs))

\* Vertical attempt of movePlayer, at the x the horizontal attempt left.
attemptVertical(x, y, cs, r, gateClosed, dy, c) ==
    IF c # 0
    THEN IF canRectMoveTo(Rect(cs[c].x, cs[c].y + dy, TILE, TILE), r, cs, c)
         THEN [y |-> y + dy, crates |-> [cs EXCEPT ![c].y = @ + dy]]
         ELSE [y |-> y, crates |-> cs]
    ELSE IF canPlayerMoveTo(x, y + dy, r, gateClosed)
         THEN [y |-> y + dy, crates |-> cs]
         ELSE [y |-> y, crates |-> cs]

moveVertical(x, y, cs, r, gateClosed, dy) ==
    IF dy = 0 THEN [y |-> y, crates |-> cs]
    ELSE attemptVertical(x, y, cs, r, gateClosed, dy, collidedCrate(x, y + dy, cs))

\* movePlayer given the result h of the horizontal attempt
moveAfterHorizontal(h, y, r, gateClosed, dy) ==
    [x |-> h.x, y |-> moveVertical(h.x, y, h.crates, r, gateClosed, dy).y,
     crates |-> moveVertical(h.x, y, h.crates, r, gateClosed, dy).crates]

movePlayer(x, y, cs, r, gateClosed, dx, dy) ==
    moveAfterHorizontal(moveHorizontal(x, y, cs, r, gateClosed, dx), y, r, gateClosed, dy)

\* ----------------------------------------------------- region transition
\* the carried-over coordinate without Math.round
carriedOverExact(v, room) == clamp(v, 2 * U, room - 2 * U)

\* the carried-over coordinate without the clamp
carriedOverUnclamped(v, room) == MathRound(v)

\* checkRegionSwitch, the coordinate along the edge crossed, in the new
\* region: clamp(Math.round(rel * size), 2, size - player size - 2), the
\* regions all of one size; room is the size less the player's
carriedOver(v, room) == clamp(MathRound(v), 2 * U, room - 2 * U)

\* an edge without a neighbour that lets the player stand past it
hardEdgeOpen(s, axis, v) == s

\* checkRegionSwitch at an edge without a neighbour: the coordinate is
\* set to the edge
hardEdge(s, axis, v) == [s EXCEPT ![axis] = v]

checkRegionSwitch(r0, x0, y0) ==
    LET inset == 2 * U
        newY(y) == carriedOver(y, RegionH - PlayerH)
        newX(x) == carriedOver(x, RegionW - PlayerW)
        s0 == [region |-> r0, x |-> x0, y |-> y0, moved |-> FALSE]
        right(s) ==
            IF s.x + PlayerW > RegionW
            THEN LET next == regionEdges(s.region)[2]
                 IN  IF next # NoNeighbour
                     THEN [region |-> next, x |-> inset, y |-> newY(s.y), moved |-> TRUE]
                     ELSE hardEdge(s, "x", RegionW - PlayerW)
            ELSE s
        left(s) ==
            IF s.x < 0
            THEN LET next == regionEdges(s.region)[4]
                 IN  IF next # NoNeighbour
                     THEN [region |-> next, x |-> RegionW - PlayerW - inset,
                           y |-> newY(s.y), moved |-> TRUE]
                     ELSE hardEdge(s, "x", 0)
            ELSE s
        top(s) ==
            IF s.y < 0
            THEN LET next == regionEdges(s.region)[1]
                 IN  IF next # NoNeighbour
                     THEN [region |-> next, x |-> newX(s.x),
                           y |-> RegionH - PlayerH - inset, moved |-> TRUE]
                     ELSE hardEdge(s, "y", 0)
            ELSE s
        bottom(s) ==
            IF s.y + PlayerH > RegionH
            THEN LET next == regionEdges(s.region)[3]
                 IN  IF next # NoNeighbour
                     THEN [region |-> next, x |-> newX(s.x), y |-> inset, moved |-> TRUE]
                     ELSE hardEdge(s, "y", RegionH - PlayerH)
            ELSE s
    IN  bottom(top(left(right(s0))))

\* ------------------------------------------------------------- puzzles
\* Every update returns the puzzle after it and whether playPuzzleClear()
\* (the completion effect) was called.

\* checkPressed without the crates: a plate is pressed by the player only
checkPressedByPlayer(p, x, y, cs) ==
    rectOverlap(PlayerRect(x, y), SizedTile(p))

\* region 0, createDynamicPlatePuzzle: state {solved}
checkPressed(p, x, y, cs) ==
    \/ rectOverlap(PlayerRect(x, y), SizedTile(p))
    \/ \E i \in 1..Len(cs) : rectOverlap(CrateRect(cs[i]), SizedTile(p))

\* the plate update without "if (this.solved) return": solved follows the
\* plates pressed in the frame
PlateUpdateRecomputed(pz, x, y, cs) ==
    LET all == \A i \in 1..Len(Plates) : checkPressed(Plates[i], x, y, cs)
    IN  [pz |-> [pz EXCEPT !.solved = all], clear |-> all /\ ~pz.solved]

PlateUpdate(pz, x, y, cs) ==
    IF pz.solved THEN [pz |-> pz, clear |-> FALSE]
    ELSE IF \A i \in 1..Len(Plates) : checkPressed(Plates[i], x, y, cs)
         THEN [pz |-> [pz EXCEPT !.solved = TRUE], clear |-> TRUE]
         ELSE [pz |-> pz, clear |-> FALSE]

\* region 1, createStrictSequencePuzzle: state {solved, index}, and the
\* module-level puzzlePadInteraction entry {enteredCorrectPad, lastHitIndex}.
\* Pad indices are 0-based as in the code; -1 is "no pad".
touchedPadIndex(x, y) ==
    FirstIndex({i \in 1..Len(Pads) :
                   rectOverlap(Rect(x, y, TILE, TILE), SizedTile(Pads[i]))}) - 1

isStillTouchingLastHitPad(x, y, lastHitIndex) ==
    /\ lastHitIndex + 1 \in 1..Len(Pads)
    /\ rectOverlap(Rect(x, y, TILE, TILE), Pads[lastHitIndex + 1])

\* the sequence update resetting on a wrong pad only when index > 0
SeqUpdateLenient(pz, inter, x, y) ==
    LET touched == touchedPadIndex(x, y)
        isTouchingAPad == touched # -1
        isTouchingCurrentTarget == touched = pz.index
        same == [pz |-> pz, inter |-> inter, clear |-> FALSE]
    IN  IF pz.solved THEN same
        ELSE IF isTouchingAPad /\ ~isTouchingCurrentTarget /\ pz.index > 0
        THEN [pz |-> [pz EXCEPT !.index = 0],
              inter |-> [enteredCorrectPad |-> FALSE, lastHitIndex |-> -1],
              clear |-> FALSE]
        ELSE IF isTouchingCurrentTarget
        THEN [pz |-> pz,
              inter |-> [enteredCorrectPad |-> TRUE, lastHitIndex |-> pz.index],
              clear |-> FALSE]
        ELSE IF inter.enteredCorrectPad /\ ~isStillTouchingLastHitPad(x, y, inter.lastHitIndex)
        THEN LET done == pz.index + 1 >= Len(Pads)
             IN  [pz |-> [solved |-> done, index |-> pz.index + 1],
                  inter |-> [enteredCorrectPad |-> FALSE, lastHitIndex |-> -1],
                  clear |-> done]
        ELSE same

SeqUpdate(pz, inter, x, y) ==
    LET touched == touchedPadIndex(x, y)
        isTouchingAPad == touched # -1
        isTouchingCurrentTarget == touched = pz.index
        same == [pz |-> pz, inter |-> inter, clear |-> FALSE]
    IN  IF pz.solved THEN same
        ELSE IF isTouchingAPad /\ ~isTouchingCurrentTarget
        THEN [pz |-> [pz EXCEPT !.index = 0],
              inter |-> [enteredCorrectPad |-> FALSE, lastHitIndex |-> -1],
              clear |-> FALSE]
        ELSE IF isTouchingCurrentTarget
        THEN [pz |-> pz,
              inter |-> [enteredCorrectPad |-> TRUE, lastHitIndex |-> pz.index],
              clear |-> FALSE]
        ELSE IF inter.enteredCorrectPad /\ ~isStillTouchingLastHitPad(x, y, inter.lastHitIndex)
        THEN LET done == pz.index + 1 >= Len(Pads)
             IN  [pz |-> [solved |-> done, index |-> pz.index + 1],
                  inter |-> [enteredCorrectPad |-> FALSE, lastHitIndex |-> -1],
                  clear |-> done]
        ELSE same

\* the pads the player's own rectangle overlaps (0-based)
padsUnderPlayer(x, y) ==
    {i \in 0..(Len(Pads) - 1) : rectOverlap(PlayerRect(x, y), SizedTile(Pads[i + 1]))}

\* An observer of the pads.  A pad is entered when the player's own rectangle
\* overlaps it and no other pad; it is fully left when not even the update's
\* larger rectangle touches a pad.  w = 2k: pads 0..k-1 were entered and left
\* in order since the index was 0, pad k comes next; w = 2k+1: pad k has
\* been entered and not yet left; touching any other pad starts over.
walkStep(w, pz, x, y) ==
    LET k == w \div 2
        touched == touchedPadIndex(x, y)
        under == padsUnderPlayer(x, y)
    IN  IF w = 2 * Len(Pads) THEN w
        ELSE IF touched = -1 THEN (IF w % 2 = 1 THEN w + 1 ELSE w)
        ELSE IF touched # k \/ ~(under \subseteq {k}) THEN 0
        ELSE IF w % 2 = 1 \/ under = {} THEN w
        ELSE IF k = 0 /\ pz.index # 0 THEN 0
        ELSE w + 1

\* region 2, createCratePuzzle: state {solved}
CrateIsSolved(cs, r) ==
    /\ Len(cs) = Len(Targets(r))
    /\ \A i \in 1..Len(cs) :
         \E t \in 1..Len(Targets(r)) : rectOverlap(CrateRect(cs[i]), Targets(r)[t])

CrateUpdate(pz, cs, r) ==
    IF pz.solved THEN [pz |-> pz, clear |-> FALSE]
    ELSE IF CrateIsSolved(cs, r)
         THEN [pz |-> [pz EXCEPT !.solved = TRUE], clear |-> TRUE]
         ELSE [pz |-> pz, clear |-> FALSE]

\* region 3, createTeleporterPuzzle: state {solved, active[]}
\* the teleporter update without "if (this.solved) return"
TeleUpdateUnguarded(pz, x, y, interactionKey) ==
    LET act == [i \in 1..Len(Teleporters) |->
                  IF interactionKey /\ rectOverlap(PlayerRect(x, y), SizedTile(Teleporters[i]))
                  THEN ~pz.active[i] ELSE pz.active[i]]
        all == \A i \in 1..Len(Teleporters) : act[i]
    IN  [pz |-> [solved |-> all, active |-> act], clear |-> all]

\* the teleporter update with some() for every(): solved as soon as one
\* teleporter is active
TeleUpdateAnyActive(pz, x, y, interactionKey) ==
    IF pz.solved THEN [pz |-> pz, clear |-> FALSE]
    ELSE LET act == [i \in 1..Len(Teleporters) |->
                       IF interactionKey /\ rectOverlap(PlayerRect(x, y), SizedTile(Teleporters[i]))
                       THEN ~pz.active[i] ELSE pz.active[i]]
             any == \E i \in 1..Len(Teleporters) : act[i]
         IN  [pz |-> [solved |-> any, active |-> act], clear |-> any]

TeleUpdate(pz, x, y, interactionKey) ==
    IF pz.solved THEN [pz |-> pz, clear |-> FALSE]
    ELSE LET act == [i \in 1..Len(Teleporters) |->
                       IF interactionKey /\ rectOverlap(PlayerRect(x, y), SizedTile(Teleporters[i]))
                       THEN ~pz.active[i] ELSE pz.active[i]]
             all == \A i \in 1..Len(Teleporters) : act[i]
         IN  [pz |-> [solved |-> all, active |-> act], clear |-> all]

GeneratedPuzzle(r) ==
    CASE r = 1 -> [solved |-> FALSE, index |-> 0]
      [] r = 3 -> [solved |-> FALSE, active |-> [i \in 1..Len(Teleporters) |-> FALSE]]
      [] OTHER -> [solved |-> FALSE]

FreshInteraction == [enteredCorrectPad |-> FALSE, lastHitIndex |-> -1]

\* getState() giving solved and index only for the sequence puzzle
GetStateWithoutFlags(r, pz, inter) ==
    CASE r = 1 -> [solved |-> pz.solved, index |-> pz.index]
      [] r = 3 -> [solved |-> pz.solved, activeStates |-> pz.active]
      [] OTHER -> [solved |-> pz.solved]

\* getState(): the JSON object the puzzle of region r serialises to.
GetState(r, pz, inter) ==
    CASE r = 1 -> [solved |-> pz.solved, index |-> pz.index,
                   enteredCorrectPad |-> inter.enteredCorrectPad,
                   lastHitIndex |-> inter.lastHitIndex]
      [] r = 3 -> [solved |-> pz.solved, activeStates |-> pz.active]
      [] OTHER -> [solved |-> pz.solved]

\* !!v of a field that may be absent from the object
Truthy(st, f) == f \in DOMAIN st /\ st[f] = TRUE

\* setState(state) on the puzzle pz of region r: [pz, inter] after it.
SetState(r, pz, inter, st) ==
    CASE r = 1 ->
           [pz |-> [solved |-> Truthy(st, "solved"),
                    index |-> IF "index" \in DOMAIN st THEN st.index ELSE 0],
            inter |-> [enteredCorrectPad |-> Truthy(st, "enteredCorrectPad"),
                       lastHitIndex |-> IF "lastHitIndex" \in DOMAIN st
                                        THEN st.lastHitIndex ELSE -1]]
      [] r = 3 ->
           [pz |-> [solved |-> IF "solved" \in DOMAIN st THEN st.solved ELSE FALSE,
                    active |-> [i \in 1..Len(Teleporters) |->
                                  IF "activeStates" \in DOMAIN st /\ i \in DOMAIN st.activeStates
                                  THEN st.activeStates[i] = TRUE
                                  ELSE pz.active[i]]],
            inter |-> inter]
      [] OTHER -> [pz |-> [solved |-> Truthy(st, "solved")], inter |-> inter]

\* --------------------------------------------------------- the state
VARIABLES
    page,                  \* "game": game.html is loaded and initGame has run; "menu": index.html
    currentRegion,         \* currentRegion
    player,                \* player.x, player.y
    crates,                \* regions[r].crates: positions, in generation order
    seeds,                 \* regions[r].seeds[i].collected
    puzzle,                \* regions[r].puzzle for r in 0..3
    puzzlePadInteraction,  \* puzzlePadInteraction["strict_sequence_..."]
    gateClosed,            \* regions[r].gate.closed for r in 0..3
    paused,                \* paused
    gameTime,              \* gameTime
    interactionPending,    \* interactionPending
    loaded,                \* the result of loadGame in the last initGame
    inflight,              \* save requests sent and not yet answered
    db,                    \* game_saves: the row load.php selects (latest save_id), or NoSave
    scores,                \* the reports submitScore has sent
    clears,                \* per region: calls of playPuzzleClear by its puzzle in this session
    walk,                  \* observer of the pads of region 1 (see walkStep)
    budget,                \* unpaused frames still to be explored
    game_saves,            \* the table game_saves, in the specification of the server alone
    submitted,             \* per report whose fetch has ended: whether it resolved
    clock,                 \* the page's time at its latest frame or click, in units
    lastTime,              \* lastTime
    animationFrameId,      \* animationFrameId is not null
    loops,                 \* callbacks of loop pending in requestAnimationFrame
    initCalls,             \* the calls of initGame that have not returned, by what each awaits
    winMenu                \* winMenu is displayed

vars == <<page, currentRegion, player, crates, seeds, puzzle, puzzlePadInteraction,
          gateClosed, paused, gameTime, interactionPending, loaded, inflight, db,
          scores, clears, walk, budget, game_saves, submitted,
          clock, lastTime, animationFrameId, loops, initCalls, winMenu>>

\* the clock and the scheduling of the page
pageVars == <<clock, lastTime, animationFrameId, loops, initCalls>>

simVars == <<currentRegion, player, crates, seeds, puzzle, puzzlePadInteraction,
             gateClosed, paused, gameTime, interactionPending, loaded, scores, clears, walk>>

\* ------------------------------------------------------------- bounds
\* frames explored from a checkpoint of play, from the crates at the gate,
\* and over the sessions of the whole program
MaxTicks == 4
GateTicks == 8
SessionTicks == 2
LoadTicks == 1
\* rows inserted into game_saves
MaxRows == 3
\* display frames followed by the clock of the page
ClockFrames == 5
\* calls of initGame pending at once
MaxCalls == 2
\* frame time in units of 1/10000 ms: 16.7 ms
FrameDt == 167000
FrameDts == {FrameDt}

PlayerName == "Lyra"
NoSave == [none |-> TRUE]
\* a failed request, or load.php's {status: "error", ...}
LoadError == [status |-> "error"]

\* --------------------------------------------------------- persistence
\* saveGame(): the payload built from the live state.
SavePayload(r, x, y, t, sd, cr, pz, inter) ==
    [player_name |-> PlayerName, region |-> r, pos_x |-> x, pos_y |-> y, game_time |-> t,
     seeds |-> sd, crates |-> cr,
     puzzles |-> [q \in Regions |-> IF HasPuzzle(q) THEN GetState(q, pz[q], inter)
                                    ELSE [solved |-> FALSE]]]

\* A value stored in an INT column: MySQL rounds to the nearest integer;
\* on an exact half either neighbour is allowed here.
SqlInt(v) ==
    LET lo == (v \div U) * U
    IN  IF v = lo THEN {v}
        ELSE IF 2 * (v - lo) < U THEN {lo}
        ELSE IF 2 * (v - lo) > U THEN {lo + U}
        ELSE {lo, lo + U}

\* save.php: the row the INSERT stores for a payload (one per rounding).
SaveRows(m) ==
    {[m EXCEPT !.pos_x = x, !.pos_y = y, !.game_time = t] :
        x \in SqlInt(m.pos_x), y \in SqlInt(m.pos_y), t \in SqlInt(m.game_time)}

\* load.php for PlayerName: the latest row, or null.
LoadResponse(d) == IF d = NoSave THEN NoSave ELSE d.row

\* generateContent()
GeneratedSeeds == [r \in Regions |-> [i \in 1..Len(SeedTiles(r)) |-> FALSE]]
GeneratedAllCrates == [r \in Regions |-> GeneratedCrates(r)]
GeneratedPuzzles == [r \in 0..3 |-> GeneratedPuzzle(r)]

\* the crates restored only for a region whose list has the live length
LoadedCratesSameLength(st) ==
    [r \in Regions |->
        IF r \in DOMAIN st.crates /\ Len(st.crates[r]) = Len(GeneratedCrates(r))
        THEN st.crates[r] ELSE GeneratedCrates(r)]

\* loadGame() on a response that is a row: positional restore over the
\* generated content.
LoadedSeeds(st) ==
    [r \in Regions |-> [i \in 1..Len(SeedTiles(r)) |->
        IF r \in DOMAIN st.seeds /\ i \in DOMAIN st.seeds[r]
        THEN st.seeds[r][i] = TRUE ELSE FALSE]]

LoadedCrates(st) ==
    [r \in Regions |-> [i \in 1..Len(GeneratedCrates(r)) |->
        IF r \in DOMAIN st.crates /\ i \in DOMAIN st.crates[r]
        THEN st.crates[r][i] ELSE GeneratedCrates(r)[i]]]

\* the puzzles restored in region order; the interaction entry is shared
RECURSIVE LoadedPuzzlesFrom(_, _, _, _)
LoadedPuzzlesFrom(r, pz, inter, st) ==
    IF r > 3 THEN [pz |-> pz, inter |-> inter]
    ELSE IF r \in DOMAIN st.puzzles
         THEN LET s == SetState(r, pz[r], inter, st.puzzles[r])
              IN  LoadedPuzzlesFrom(r + 1, [pz EXCEPT ![r] = s.pz], s.inter, st)
         ELSE LoadedPuzzlesFrom(r + 1, pz, inter, st)

\* the payload of the save initGame awaits on a fresh start
NewGameSave ==
    SavePayload(0, StartX, StartY, 0, GeneratedSeeds, GeneratedAllCrates,
                GeneratedPuzzles, FreshInteraction)

\* ------------------------------------------------------------ the tick
PuzzleUpdate(r, pz, inter, x, y, cs, interaction) ==
    CASE r = 0 -> LET u == PlateUpdate(pz[0], x, y, cs)
                  IN  [pz |-> [pz EXCEPT ![0] = u.pz], inter |-> inter, clear |-> u.clear]
      [] r = 1 -> LET u == SeqUpdate(pz[1], inter, x, y)
                  IN  [pz |-> [pz EXCEPT ![1] = u.pz], inter |-> u.inter, clear |-> u.clear]
      [] r = 2 -> LET u == CrateUpdate(pz[2], cs, 2)
                  IN  [pz |-> [pz EXCEPT ![2] = u.pz], inter |-> inter, clear |-> u.clear]
      [] r = 3 -> LET u == TeleUpdate(pz[3], x, y, interaction)
                  IN  [pz |-> [pz EXCEPT ![3] = u.pz], inter |-> inter, clear |-> u.clear]
      [] OTHER -> [pz |-> pz, inter |-> inter, clear |-> FALSE]

allCollected(sd) == \A r \in Regions : \A i \in 1..Len(sd[r]) : sd[r][i]

\* updateSeeds without "if (s.collected) continue": a seed is collected
\* while the player overlaps it
seedsUpToTouched(sd, r, x, y, k) ==
    [sd EXCEPT ![r] = [i \in 1..Len(sd[r]) |->
        IF i <= k THEN rectOverlap(PlayerRect(x, y), SeedTiles(r)[i]) ELSE sd[r][i]]]

\* updateSeeds: the flags after the first k seeds of region r were looked at
seedsUpTo(sd, r, x, y, k) ==
    [sd EXCEPT ![r] = [i \in 1..Len(sd[r]) |->
        sd[r][i] \/ (i <= k /\ rectOverlap(PlayerRect(x, y), SeedTiles(r)[i]))]]

\* updateSeeds sending the seeds as they were when the frame began
seedSavesStale(sd, r, m, t1, cr, pz, inter) ==
    {SavePayload(r, m.x, m.y, t1, sd, cr, pz, inter) :
       i \in {j \in 1..Len(sd[r]) :
                ~sd[r][j] /\ rectOverlap(PlayerRect(m.x, m.y), SeedTiles(r)[j])}}

\* updateSeeds without its saveGame()
seedSavesNone(sd, r, m, t1, cr, pz, inter) == {}

\* updateSeeds: one saveGame() per seed collected, each with the state then
seedSaves(sd, r, m, t1, cr, pz, inter) ==
    {SavePayload(r, m.x, m.y, t1, seedsUpTo(sd, r, m.x, m.y, i), cr, pz, inter) :
       i \in {j \in 1..Len(sd[r]) :
                ~sd[r][j] /\ rectOverlap(PlayerRect(m.x, m.y), SeedTiles(r)[j])}}

\* the body of the report with the time in seconds
submitScoreBodyInSeconds(playerName, time) ==
    [player_name |-> playerName, completion_time |-> time \div 1000]

\* submitScore: the body of the request, the time as gameTime has it
submitScoreBody(playerName, time) ==
    [player_name |-> playerName, completion_time |-> time]

\* checkWinCondition without "if (!allCollected) return"
winConditionAtMonument(sd, r, x, y) ==
    /\ r = LastRegion
    /\ rectOverlap(PlayerRect(x, y), monument)

\* checkWinCondition
winCondition(sd, r, x, y) ==
    /\ allCollected(sd)
    /\ r = LastRegion
    /\ rectOverlap(PlayerRect(x, y), monument)

\* updatePuzzle with the interact key read as a level: interaction is true
\* in every frame the key is held
interactionLevel(r, key, pending) == HasPuzzle(r) /\ key

\* updatePuzzle: interaction, true in the frame the interact key is found
\* held with interactionPending false; a region without a puzzle returns
\* before the key is read
interactionEdge(r, key, pending) == HasPuzzle(r) /\ key /\ ~pending

\* updatePuzzle without its last line: the gate is left as it was
gateSyncSkipped(gc, r, pz) == gc

\* updatePuzzle, last line: gate.closed = p.blocksExit(), for the region
\* played when it has a puzzle and a gate
gateSync(gc, r, pz) ==
    IF HasPuzzle(r) /\ HasGate(r) THEN [gc EXCEPT ![r] = ~pz[r].solved] ELSE gc

\* The body of loop() once movePlayer has given m, updateSeeds seeds1,
\* updatePuzzle u and checkRegionSwitch sw; t1 is the advanced gameTime.
TickApply(r, m, key, t1, crates1, seeds1, u, sw, win) ==
    /\ currentRegion' = sw.region
    /\ player' = [x |-> sw.x, y |-> sw.y]
    /\ crates' = crates1
    /\ gameTime' = t1
    /\ seeds' = seeds1
    /\ interactionPending' = IF HasPuzzle(r) THEN key ELSE interactionPending
    /\ puzzle' = u.pz
    /\ puzzlePadInteraction' = u.inter
    /\ gateClosed' = gateSync(gateClosed, r, u.pz)
    /\ clears' = IF u.clear THEN [clears EXCEPT ![r] = @ + 1] ELSE clears
    /\ walk' = IF r = 1 THEN walkStep(walk, puzzle[1], m.x, m.y) ELSE walk
    /\ inflight' = inflight \cup
          {[snap |-> s, quit |-> FALSE] :
             s \in seedSaves(seeds, r, m, t1, crates1, puzzle, puzzlePadInteraction) \cup
                   (IF sw.moved
                    THEN {SavePayload(sw.region, sw.x, sw.y, t1, seeds1, crates1, u.pz, u.inter)}
                    ELSE {})}
    /\ paused' = win
    /\ winMenu' = (winMenu \/ win)
    /\ scores' = IF win
                 THEN Append(scores, submitScoreBody(PlayerName, t1))
                 ELSE scores

TickSwitched(r, m, key, t1, crates1, seeds1, u, sw) ==
    TickApply(r, m, key, t1, crates1, seeds1, u, sw, winCondition(seeds1, sw.region, sw.x, sw.y))

TickMoved(r, m, key, t1) ==
    TickSwitched(r, m, key, t1,
                 [crates EXCEPT ![r] = m.crates],
                 seedsUpTo(seeds, r, m.x, m.y, Len(seeds[r])),
                 PuzzleUpdate(r, puzzle, puzzlePadInteraction, m.x, m.y, m.crates,
                              interactionEdge(r, key, interactionPending)),
                 checkRegionSwitch(r, m.x, m.y))

\* The speed on each axis for the keys held: dx *= 0.7071 on a diagonal.
axisStep(kx, ky) == IF kx # 0 /\ ky # 0 THEN DiagSpeed ELSE PlayerSpeed

\* One unpaused frame of loop(): the keys held give the direction (kx, ky)
\* and the interact key; dt is the frame time.
Tick(kx, ky, key, dt) ==
    /\ page = "game"
    /\ ~paused
    /\ budget > 0
    /\ TickMoved(currentRegion,
                 movePlayer(player.x, player.y, crates[currentRegion], currentRegion,
                            HasGate(currentRegion) /\ gateClosed[currentRegion],
                            kx * axisStep(kx, ky), ky * axisStep(kx, ky)),
                 key, gameTime + dt)
    /\ budget' = budget - 1
    /\ UNCHANGED <<page, loaded, db, game_saves, submitted, pageVars>>

Frame ==
    \E kx \in {-1, 0, 1}, ky \in {-1, 0, 1}, key \in BOOLEAN, dt \in FrameDts :
        Tick(kx, ky, key, dt)

\* a frame with at most the left or the right key held
FrameAlong ==
    \E kx \in {-1, 0, 1}, dt \in FrameDts : Tick(kx, 0, FALSE, dt)

\* pauseButton click
togglePause ==
    /\ page = "game"
    /\ paused' = ~paused
    /\ UNCHANGED <<page, currentRegion, player, crates, seeds, puzzle, puzzlePadInteraction,
                   gateClosed, gameTime, interactionPending, loaded, inflight, db,
                   scores, clears, walk, budget, game_saves, submitted, pageVars, winMenu>>

\* ------------------------------------------------- server and network
\* save.php answers a request: the row is inserted with the next save_id.
\* The quit handler awaits its save and then leaves for the menu.
SaveArrives ==
    \E m \in inflight : \E row \in SaveRows(m.snap) :
        /\ db' = [row |-> row, sent |-> m.snap]
        /\ inflight' = inflight \ {m}
        /\ page' = IF m.quit THEN "menu" ELSE page
        /\ UNCHANGED <<simVars, budget, game_saves, submitted, pageVars, winMenu>>

\* a failed request that freezes the session
SaveFailsAndPauses ==
    \E m \in inflight :
        /\ inflight' = inflight \ {m}
        /\ page' = IF m.quit THEN "menu" ELSE page
        /\ paused' = TRUE
        /\ UNCHANGED <<currentRegion, player, crates, seeds, puzzle, puzzlePadInteraction,
                       gateClosed, gameTime, interactionPending, loaded, scores, clears,
                       walk, db, budget, game_saves, submitted, pageVars, winMenu>>

\* the request fails (transport error, error answer): saveGame logs it
SaveFails ==
    \E m \in inflight :
        /\ inflight' = inflight \ {m}
        /\ page' = IF m.quit THEN "menu" ELSE page
        /\ UNCHANGED <<simVars, db, budget, game_saves, submitted, pageVars, winMenu>>

\* the payload saveGame() builds in the current state
LiveSnapshot ==
    SavePayload(currentRegion, player.x, player.y, gameTime, seeds, crates,
                puzzle, puzzlePadInteraction)

\* quitBtn click: pause, save, and (when the save is answered) leave
Quit ==
    /\ page = "game"
    /\ \A m \in inflight : ~m.quit
    /\ paused' = TRUE
    /\ inflight' = inflight \cup
          {[snap |-> LiveSnapshot, quit |-> TRUE]}
    /\ UNCHANGED <<page, currentRegion, player, crates, seeds, puzzle, puzzlePadInteraction,
                   gateClosed, gameTime, interactionPending, loaded, db, scores, clears,
                   walk, budget, game_saves, submitted, pageVars, winMenu>>

\* ------------------------------------------------------------- initGame
\* A seeds, crates or puzzles column whose JSON text is not an array (null
\* where save.php was sent a body without the key): JSON.parse succeeds and
\* forEach throws, so loadGame returns false from there on.
NotAnArray == [k \in {-1} |-> <<>>]
IsArray(c) == -1 \notin DOMAIN c

\* loadGame restores region, position and time, then the seeds, the crates
\* and the puzzles in this order, and stops at the first column that is not
\* an array; initGame then resets region, position and time only.
\* initGame on a fresh load of game.html.  resp is what loadGame gets from
\* load.php (LoadError for a failed request); saved tells whether the awaited
\* save of a fresh start is stored.
initGame(newGame, resp, saved) ==
    LET row == ~newGame /\ "player_name" \in DOMAIN resp
        seedsOk == row /\ IsArray(resp.seeds)
        cratesOk == seedsOk /\ IsArray(resp.crates)
        ok == cratesOk /\ IsArray(resp.puzzles)
        lp == IF ok THEN LoadedPuzzlesFrom(0, GeneratedPuzzles, FreshInteraction, resp)
              ELSE [pz |-> GeneratedPuzzles, inter |-> FreshInteraction]
        r == IF ok THEN resp.region ELSE 0
        x == IF ok THEN resp.pos_x ELSE StartX
        y == IF ok THEN resp.pos_y ELSE StartY
        t == IF ok THEN resp.game_time ELSE 0
        sd == IF seedsOk THEN LoadedSeeds(resp) ELSE GeneratedSeeds
        cr == IF cratesOk THEN LoadedCrates(resp) ELSE GeneratedAllCrates
        snap == SavePayload(r, x, y, t, sd, cr, lp.pz, lp.inter)
    IN  /\ loaded' = ok
        /\ currentRegion' = r
        /\ player' = [x |-> x, y |-> y]
        /\ gameTime' = t
        /\ seeds' = sd
        /\ crates' = cr
        /\ puzzle' = lp.pz
        /\ puzzlePadInteraction' = lp.inter
        /\ gateClosed' = [q \in 0..3 |-> ~lp.pz[q].solved]
        /\ paused' = FALSE
        /\ interactionPending' = FALSE
        /\ scores' = scores
        /\ clears' = [q \in 0..3 |-> 0]
        /\ IF ok THEN db' = db
           ELSE \/ saved /\ \E stored \in SaveRows(snap) : db' = [row |-> stored, sent |-> snap]
                \/ ~saved /\ db' = db
        /\ walk' = 0
        /\ page' = "game"
        /\ winMenu' = FALSE
        /\ UNCHANGED <<inflight, budget, game_saves, submitted, pageVars>>

\* menu: "Resume" (startMode = resume)
Resume ==
    /\ page = "menu"
    /\ \E resp \in {LoadResponse(db), LoadError}, saved \in BOOLEAN :
         initGame(FALSE, resp, saved)

\* menu: "Start" (startMode = new)
StartNew ==
    /\ page = "menu"
    /\ \E saved \in BOOLEAN : initGame(TRUE, NoSave, saved)

\* -------------------------------------------------------- specification
\* The clock and the scheduling of the page are followed in the
\* specifications of the page alone; elsewhere one loop runs, no call of
\* initGame is pending and the clock stays where it is.
PageAside ==
    /\ clock = 0
    /\ lastTime = 0
    /\ animationFrameId = TRUE
    /\ loops = 1
    /\ initCalls = <<>>
    /\ winMenu = FALSE

\* The state initGame(true) leaves on a fresh page: the generated content at
\* the start position, its awaited save stored or failed.
NewGameState ==
    /\ page = "game"
    /\ currentRegion = 0
    /\ player = [x |-> StartX, y |-> StartY]
    /\ crates = GeneratedAllCrates
    /\ seeds = GeneratedSeeds
    /\ puzzle = GeneratedPuzzles
    /\ puzzlePadInteraction = FreshInteraction
    /\ gateClosed = [q \in 0..3 |-> TRUE]
    /\ paused = FALSE
    /\ gameTime = 0
    /\ interactionPending = FALSE
    /\ loaded = FALSE
    /\ inflight = {}
    /\ db \in {NoSave} \cup
             {[row |-> row, sent |-> NewGameSave] : row \in SaveRows(NewGameSave)}
    /\ scores = <<>>
    /\ clears = [q \in 0..3 |-> 0]
    /\ walk = 0

\* Checkpoints of play.  The objects of the game lie hundreds of frames
\* from the start position, so play is explored from states a new game
\* reaches by walking and pushing, each given with the number of frames
\* that lead to it (the keys held are listed with each).  In every one the
\* saves sent on the way have been answered with an error.
Px(x, y) == [x |-> x * U, y |-> y * U]

CratesAt(c0, cA, cB) ==
    [r \in Regions |-> CASE r = 0 -> <<c0>> [] r = 2 -> <<cA, cB>> [] OTHER -> <<>>]

SeedsAt(s0, s1, s2) ==
    [r \in Regions |-> CASE r = 0 -> <<s0>> [] r = 1 -> <<s1>> [] r = 2 -> <<s2>>
                          [] r = 3 -> <<FALSE, FALSE>> [] OTHER -> <<>>]

PuzzlesAt(s0, s1, index, s2, active) ==
    [r \in 0..3 |-> CASE r = 0 -> [solved |-> s0]
                       [] r = 1 -> [solved |-> s1, index |-> index]
                       [] r = 2 -> [solved |-> s2]
                       [] r = 3 -> [solved |-> FALSE, active |-> active]]

\* region 0, left of the crate where it was generated: down 33, right 24
PushStart ==
    [region |-> 0, at |-> Px(168, 195),
     crates |-> CratesAt(Px(192, 192), Px(384, 128), Px(384, 384)),
     seeds |-> SeedsAt(FALSE, FALSE, FALSE),
     puzzle |-> PuzzlesAt(FALSE, FALSE, 0, FALSE, <<FALSE, FALSE>>),
     frames |-> 57, walk |-> 0,
     inter |-> FreshInteraction]

\* region 0, the crate pushed right 52 times (over the seed) and down once,
\* the player back at its left: the crate is one push from the obstacle
AtObstacle ==
    [region |-> 0, at |-> Px(324, 198),
     crates |-> CratesAt(Px(348, 195), Px(384, 128), Px(384, 384)),
     seeds |-> SeedsAt(TRUE, FALSE, FALSE),
     puzzle |-> PuzzlesAt(FALSE, FALSE, 0, FALSE, <<FALSE, FALSE>>),
     frames |-> 148, walk |-> 0,
     inter |-> FreshInteraction]

\* region 0: down 38 to eighteen pixels below the crate's top, right 24 to
\* its left side, then the crate pushed right 64 times (over the seed) to
\* stand above the obstacle, the player's lower ten pixels level with it
BesideRock ==
    [region |-> 0, at |-> Px(360, 210),
     crates |-> CratesAt(Px(384, 192), Px(384, 128), Px(384, 384)),
     seeds |-> SeedsAt(TRUE, FALSE, FALSE),
     puzzle |-> PuzzlesAt(FALSE, FALSE, 0, FALSE, <<FALSE, FALSE>>),
     frames |-> 126, walk |-> 0,
     inter |-> FreshInteraction]

\* region 0, the crate pushed right 11 times and up once onto the second
\* plate, the player two steps below the first plate
AtPlates ==
    [region |-> 0, at |-> Px(135, 195),
     crates |-> CratesAt(Px(225, 189), Px(384, 128), Px(384, 384)),
     seeds |-> SeedsAt(FALSE, FALSE, FALSE),
     puzzle |-> PuzzlesAt(FALSE, FALSE, 0, FALSE, <<FALSE, FALSE>>),
     frames |-> 128, walk |-> 0,
     inter |-> FreshInteraction]

\* region 1 entered at y = 222 after the plates (the crate of region 0 was
\* pushed along on the way out), the player above the right end of pad 0
AtPad0 ==
    [region |-> 1, at |-> Px(830, 222),
     crates |-> CratesAt(Px(444, 189), Px(384, 128), Px(384, 384)),
     seeds |-> SeedsAt(TRUE, FALSE, FALSE),
     puzzle |-> PuzzlesAt(TRUE, FALSE, 0, FALSE, <<FALSE, FALSE>>),
     frames |-> 685, walk |-> 0,
     inter |-> FreshInteraction]

\* region 1, pad 0 entered from above at x = 779 and left upwards, pad 1
\* likewise at x = 833, the player then above the right end of pad 2, one
\* step short of overlapping it: the update's larger rectangle touches it
AtPad2 ==
    [region |-> 1, at |-> Px(893, 231),
     crates |-> CratesAt(Px(444, 189), Px(384, 128), Px(384, 384)),
     seeds |-> SeedsAt(TRUE, FALSE, FALSE),
     puzzle |-> PuzzlesAt(TRUE, FALSE, 2, FALSE, <<FALSE, FALSE>>),
     frames |-> 759, walk |-> 4,
     inter |-> [enteredCorrectPad |-> TRUE, lastHitIndex |-> 2]]

\* region 2 after the pads: the first crate pushed left and down onto the
\* first target (over the seed), the second one push short of the second
AtTargets ==
    [region |-> 2, at |-> Px(710, 387),
     crates |-> CratesAt(Px(444, 189), Px(222, 161), Px(735, 384)),
     seeds |-> SeedsAt(TRUE, FALSE, TRUE),
     puzzle |-> PuzzlesAt(TRUE, TRUE, 3, FALSE, <<FALSE, FALSE>>),
     frames |-> 1330, walk |-> 6,
     inter |-> FreshInteraction]

\* region 2 after the pads: both crates pushed right 170 times, the first
\* then down 74 times to two pixels above the second, the player at their
\* right, level with both, two pixels short of the closed gate
Stacked ==
    [region |-> 2, at |-> Px(926, 372),
     crates |-> CratesAt(Px(444, 189), Px(894, 350), Px(894, 384)),
     seeds |-> SeedsAt(TRUE, FALSE, FALSE),
     puzzle |-> PuzzlesAt(TRUE, TRUE, 3, FALSE, <<FALSE, FALSE>>),
     frames |-> 1679, walk |-> 6,
     inter |-> FreshInteraction]

\* region 2 after the pads: the second crate pushed right 108 times and
\* down 10 times to two pixels above the lower obstacle, the first pushed
\* right 119 times and down 95 times to its right; the player above the
\* first, its rectangle reaching over the second as well
Straddling ==
    [region |-> 2, at |-> Px(737, 387),
     crates |-> CratesAt(Px(444, 189), Px(741, 413), Px(708, 414)),
     seeds |-> SeedsAt(TRUE, FALSE, FALSE),
     puzzle |-> PuzzlesAt(TRUE, TRUE, 3, FALSE, <<FALSE, FALSE>>),
     frames |-> 1585, walk |-> 6,
     inter |-> FreshInteraction]

\* region 3 after the targets: the second teleporter switched on, the
\* player on the first
AtTeleporter ==
    [region |-> 3, at |-> Px(704, 129),
     crates |-> CratesAt(Px(444, 189), Px(222, 161), Px(738, 384)),
     seeds |-> SeedsAt(TRUE, FALSE, TRUE),
     puzzle |-> PuzzlesAt(TRUE, TRUE, 3, TRUE, <<FALSE, TRUE>>),
     frames |-> 1828, walk |-> 6,
     inter |-> FreshInteraction]

Checkpoints ==
    {PushStart, AtObstacle, BesideRock, AtPlates, AtPad0, AtPad2, AtTargets, Stacked, Straddling,
     AtTeleporter}

\* the session at checkpoint c
StartAt(c) ==
    /\ page = "game"
    /\ currentRegion = c.region
    /\ player = c.at
    /\ crates = c.crates
    /\ seeds = c.seeds
    /\ puzzle = c.puzzle
    /\ puzzlePadInteraction = c.inter
    /\ gateClosed = [q \in 0..3 |-> ~c.puzzle[q].solved]
    /\ paused = FALSE
    /\ gameTime = c.frames * FrameDt
    /\ interactionPending = FALSE
    /\ loaded = FALSE
    /\ inflight = {}
    /\ db = NoSave
    /\ scores = <<>>
    /\ clears = [q \in 0..3 |-> IF c.puzzle[q].solved THEN 1 ELSE 0]
    /\ walk = c.walk

\* The whole program: sessions, the server, the menu.
Init == NewGameState /\ budget = SessionTicks /\ game_saves = <<>> /\ submitted = <<>> /\ PageAside

Next ==
    \/ Frame
    \/ togglePause
    \/ SaveArrives
    \/ SaveFails
    \/ Quit
    \/ Resume
    \/ StartNew

Spec == Init /\ [][Next]_vars

\* One session of play: the frames of loop() and the pause button, from
\* the checkpoints.
InitPlay == \E c \in Checkpoints : StartAt(c) /\ budget = MaxTicks /\ game_saves = <<>> /\ submitted = <<>> /\ PageAside

NextPlay ==
    \/ Frame
    \/ togglePause

SpecPlay == InitPlay /\ [][NextPlay]_vars

\* Play along the row of the crates beside the closed gate of region 2.
InitGate == StartAt(Stacked) /\ budget = GateTicks /\ game_saves = <<>> /\ submitted = <<>> /\ PageAside

NextGate ==
    \/ FrameAlong
    \/ togglePause

SpecGate == InitGate /\ [][NextGate]_vars

\* ------------------------------------------- further states of play
\* More states the same play reaches, each after the frames told with it.
AllSolved == [PuzzlesAt(TRUE, TRUE, 3, TRUE, <<TRUE, TRUE>>) EXCEPT ![3].solved = TRUE]

\* region 0, new game: up 31 and left 31, the player three pixels from the
\* top and the left edge of the world
AtCorner ==
    [region |-> 0, at |-> Px(3, 3),
     crates |-> CratesAt(Px(192, 192), Px(384, 128), Px(384, 384)),
     seeds |-> SeedsAt(FALSE, FALSE, FALSE),
     puzzle |-> PuzzlesAt(FALSE, FALSE, 0, FALSE, <<FALSE, FALSE>>),
     frames |-> 62, walk |-> 0,
     inter |-> FreshInteraction]

\* region 0 after the plates, the gate open: the player three pixels from
\* the top edge and one step from the right edge
AtCorner0 ==
    [region |-> 0, at |-> Px(933, 3),
     crates |-> CratesAt(Px(444, 189), Px(384, 128), Px(384, 384)),
     seeds |-> SeedsAt(TRUE, FALSE, FALSE),
     puzzle |-> PuzzlesAt(TRUE, FALSE, 0, FALSE, <<FALSE, FALSE>>),
     frames |-> 480, walk |-> 0,
     inter |-> FreshInteraction]

\* region 1 just entered from region 0 at y = 222: the player at the inset
Entered1 ==
    [region |-> 1, at |-> Px(2, 222),
     crates |-> CratesAt(Px(444, 189), Px(384, 128), Px(384, 384)),
     seeds |-> SeedsAt(TRUE, FALSE, FALSE),
     puzzle |-> PuzzlesAt(TRUE, FALSE, 0, FALSE, <<FALSE, FALSE>>),
     frames |-> 409, walk |-> 0,
     inter |-> FreshInteraction]

\* region 2 after the pads: the first crate on the corner of the first
\* target, the second pushed left 56 times and up 53 times to one push
\* below the same target, the player under it
OnOneTarget ==
    [region |-> 2, at |-> Px(218, 258),
     crates |-> CratesAt(Px(444, 189), Px(222, 161), Px(216, 225)),
     seeds |-> SeedsAt(TRUE, FALSE, TRUE),
     puzzle |-> PuzzlesAt(TRUE, TRUE, 3, FALSE, <<FALSE, FALSE>>),
     frames |-> 1363, walk |-> 6,
     inter |-> FreshInteraction]

\* region 3 after the targets: the player on the second teleporter, both
\* teleporters still off
AtFirstTeleporter ==
    [region |-> 3, at |-> Px(257, 450),
     crates |-> CratesAt(Px(444, 189), Px(222, 161), Px(738, 384)),
     seeds |-> SeedsAt(TRUE, FALSE, TRUE),
     puzzle |-> PuzzlesAt(TRUE, TRUE, 3, TRUE, <<FALSE, FALSE>>),
     frames |-> 1570, walk |-> 6,
     inter |-> FreshInteraction]

\* region 4 after the teleporters, the seeds of regions 1 and 3 left
\* behind: the player one step left of the monument
AtMonumentShort ==
    [region |-> 4, at |-> Px(455, 291),
     crates |-> CratesAt(Px(444, 189), Px(222, 161), Px(738, 384)),
     seeds |-> SeedsAt(TRUE, FALSE, TRUE),
     puzzle |-> AllSolved,
     frames |-> 2111, walk |-> 6,
     inter |-> FreshInteraction]

\* region 4, likewise: the player one step from the right edge and from
\* the bottom edge of the world
AtWorldEnd ==
    [region |-> 4, at |-> Px(935, 549),
     crates |-> CratesAt(Px(444, 189), Px(222, 161), Px(738, 384)),
     seeds |-> SeedsAt(TRUE, FALSE, TRUE),
     puzzle |-> AllSolved,
     frames |-> 2417, walk |-> 6,
     inter |-> FreshInteraction]

\* region 4 after the teleporters, both seeds of region 3 collected and
\* the seed of region 1 fetched on a walk back: every seed is collected,
\* the player one step left of the monument
AtMonument ==
    [region |-> 4, at |-> Px(455, 270),
     crates |-> CratesAt(Px(444, 189), Px(222, 161), Px(738, 384)),
     seeds |-> [SeedsAt(TRUE, TRUE, TRUE) EXCEPT ![3] = <<TRUE, TRUE>>],
     puzzle |-> AllSolved,
     frames |-> 3316, walk |-> 6,
     inter |-> FreshInteraction]

\* region 3 after the teleporters: the player has walked down to y = 300
\* and left to x = 608, its left edge on the right edge of the second seed
NearSeed3 ==
    [region |-> 3, at |-> Px(608, 300),
     crates |-> CratesAt(Px(444, 189), Px(222, 161), Px(738, 384)),
     seeds |-> SeedsAt(TRUE, FALSE, TRUE),
     puzzle |-> AllSolved,
     frames |-> 1919, walk |-> 6,
     inter |-> FreshInteraction]

LateCheckpoints ==
    {AtCorner, AtCorner0, Entered1, OnOneTarget, AtFirstTeleporter, AtTeleporter,
     NearSeed3, AtMonumentShort, AtWorldEnd, AtMonument}

\* Play from these states.
InitLate == \E c \in LateCheckpoints : StartAt(c) /\ budget = MaxTicks /\ game_saves = <<>> /\ submitted = <<>> /\ PageAside

SpecLate == InitLate /\ [][NextPlay]_vars

\* Sessions, the server and the menu from a state of play one frame before
\* the last puzzle is solved.
InitSession == StartAt(AtTeleporter) /\ budget = SessionTicks /\ game_saves = <<>> /\ submitted = <<>> /\ PageAside

SpecSession == InitSession /\ [][Next]_vars

\* Play with the saves it requests answered by save.php, in any order,
\* from the state one step from a seed.
InitOrder == StartAt(NearSeed3) /\ budget = MaxTicks /\ game_saves = <<>> /\ submitted = <<>> /\ PageAside

NextOrder ==
    \/ Frame
    \/ Quit
    \/ SaveArrives

SpecOrder == InitOrder /\ [][NextOrder]_vars

\* ------------------------------------------------- rows found on load
\* The payloads saveGame builds at three states of play.
SavedStates == {AtPad2, NearSeed3, AtMonument}

SnapshotAt(c) ==
    SavePayload(c.region, c.at.x, c.at.y, c.frames * FrameDt, c.seeds, c.crates,
                c.puzzle, c.inter)

\* the bodies save.php may be sent for a payload: the payload, or the
\* payload without some of the keys seeds, crates, puzzles
Bodies(m) ==
    {[m EXCEPT !.seeds = IF "seeds" \in B THEN NotAnArray ELSE @,
               !.crates = IF "crates" \in B THEN NotAnArray ELSE @,
               !.puzzles = IF "puzzles" \in B THEN NotAnArray ELSE @] :
        B \in SUBSET {"seeds", "crates", "puzzles"}}

\* what game_saves holds once save.php has stored the body b
StoredBy(b) == {[row |-> stored, sent |-> b] : stored \in SaveRows(b)}

\* The menu with no row stored for the player or with the row of one such
\* body; the whole program from there.
InitLoad ==
    /\ page = "menu"
    /\ currentRegion = 0
    /\ player = [x |-> StartX, y |-> StartY]
    /\ crates = GeneratedAllCrates
    /\ seeds = GeneratedSeeds
    /\ puzzle = GeneratedPuzzles
    /\ puzzlePadInteraction = FreshInteraction
    /\ gateClosed = [q \in 0..3 |-> TRUE]
    /\ paused = FALSE
    /\ gameTime = 0
    /\ interactionPending = FALSE
    /\ loaded = FALSE
    /\ inflight = {}
    /\ db \in {NoSave} \cup
             UNION {StoredBy(b) : b \in UNION {Bodies(SnapshotAt(c)) : c \in SavedStates}}
    /\ scores = <<>>
    /\ clears = [q \in 0..3 |-> 0]
    /\ walk = 0
    /\ budget = LoadTicks
    /\ game_saves = <<>> /\ submitted = <<>> /\ PageAside

SpecLoad == InitLoad /\ [][Next]_vars

\* -------------------------------------------- rows of another length
\* A column of per-region lists (seeds, crates) as another version of the
\* content would have saved it: without the last two regions, with every
\* list one entry shorter, or with a sixth region and one more entry in
\* every list.
ResizedLists(f, how, extra) ==
    CASE how = "regions" -> [r \in 0..2 |-> f[r]]
      [] how = "lists" -> [r \in Regions |-> SubSeq(f[r], 1, Len(f[r]) - 1)]
      [] how = "longer" -> [r \in 0..5 |-> IF r \in Regions THEN Append(f[r], extra)
                                                             ELSE <<extra>>]
      [] OTHER -> f

\* The bodies of those shapes for a payload; the puzzles column likewise
\* as saved, of the first two regions only, or of six.
Resized(m) ==
    {[m EXCEPT !.seeds = ResizedLists(@, hs, TRUE),
               !.crates = ResizedLists(@, hc, [x |-> TILE, y |-> TILE]),
               !.puzzles = CASE hp = "regions" -> [r \in 0..1 |-> @[r]]
                             [] hp = "longer" -> [r \in 0..5 |-> IF r \in Regions THEN @[r]
                                                                  ELSE [solved |-> TRUE]]
                             [] OTHER -> @] :
        hs \in {"same", "regions", "lists", "longer"},
        hc \in {"same", "regions", "lists", "longer"},
        hp \in {"same", "regions", "longer"}}

\* The menu with the row of such a body stored for the player.
InitResized ==
    /\ page = "menu"
    /\ currentRegion = 0
    /\ player = [x |-> StartX, y |-> StartY]
    /\ crates = GeneratedAllCrates
    /\ seeds = GeneratedSeeds
    /\ puzzle = GeneratedPuzzles
    /\ puzzlePadInteraction = FreshInteraction
    /\ gateClosed = [q \in 0..3 |-> TRUE]
    /\ paused = FALSE
    /\ gameTime = 0
    /\ interactionPending = FALSE
    /\ loaded = FALSE
    /\ inflight = {}
    /\ db \in UNION {StoredBy(b) : b \in UNION {Resized(SnapshotAt(c)) : c \in {AtPad2, AtMonument}}}
    /\ scores = <<>>
    /\ clears = [q \in 0..3 |-> 0]
    /\ walk = 0
    /\ budget = LoadTicks
    /\ game_saves = <<>> /\ submitted = <<>> /\ PageAside

\* menu: "Resume", the load request answered with the row
ResumeAnswered ==
    /\ page = "menu"
    /\ \E saved \in BOOLEAN : initGame(FALSE, LoadResponse(db), saved)

NextResized ==
    \/ ResumeAnswered
    \/ Frame
    \/ togglePause

SpecResized == InitResized /\ [][NextResized]_vars

\* ------------------------------------------------------------- the win
\* submitScore's fetch ends for a report sent: it resolves (ok) or rejects.
\* checkWinCondition does not await submitScore and nothing follows the
\* await inside it.
submitScoreEnds(ok) ==
    /\ page = "game"
    /\ Len(submitted) < Len(scores)
    /\ submitted' = Append(submitted, ok)
    /\ UNCHANGED <<page, simVars, inflight, db, budget, game_saves, pageVars, winMenu>>

ScoreAnswered == \E ok \in BOOLEAN : submitScoreEnds(ok)

\* Play around the monument: the frames, the pause button and the answers
\* to the reports.
InitWin ==
    \E c \in {AtMonumentShort, AtMonument} :
        StartAt(c) /\ budget = MaxTicks /\ game_saves = <<>> /\ submitted = <<>> /\ PageAside

NextWin ==
    \/ Frame
    \/ togglePause
    \/ ScoreAnswered

SpecWin == InitWin /\ [][NextWin]_vars

\* ----------------------------------------------------------- the clock
\* requestAnimationFrame calls loop back once per display frame, with the
\* time of that frame
nextFrame(t) == (t \div FrameDt + 1) * FrameDt

\* performance.now() in a click handler: clicks fall between two frames
clickTime(t) == IF t % FrameDt = 0 THEN t + FrameDt \div 2 ELSE t

\* loop updating lastTime in unpaused frames only
loopLastTimeWhenPlaying(p, now, last) == IF p THEN last ELSE now

\* loop: lastTime = now, in every frame, paused or not
loopLastTime(p, now, last) == now

\* loop(now), the whole callback: dt = now - lastTime, and the frame is
\* played only if not paused
loop(kx, ky, key) ==
    /\ page = "game"
    /\ loops > 0
    /\ clock < ClockFrames * FrameDt
    /\ clock' = nextFrame(clock)
    /\ lastTime' = loopLastTime(paused, nextFrame(clock), lastTime)
    /\ UNCHANGED <<animationFrameId, loops, initCalls>>
    /\ IF paused
       THEN UNCHANGED <<page, simVars, inflight, db, budget, game_saves, submitted, winMenu>>
       ELSE /\ budget > 0
            /\ TickMoved(currentRegion,
                         movePlayer(player.x, player.y, crates[currentRegion], currentRegion,
                                    HasGate(currentRegion) /\ gateClosed[currentRegion],
                                    kx * axisStep(kx, ky), ky * axisStep(kx, ky)),
                         key, gameTime + (nextFrame(clock) - lastTime))
            /\ budget' = budget - 1
            /\ UNCHANGED <<page, loaded, db, game_saves, submitted>>

\* togglePause with its "if (!paused) lastTime = performance.now()"
togglePauseAt ==
    /\ page = "game"
    /\ paused' = ~paused
    /\ clock' = clickTime(clock)
    /\ lastTime' = IF paused THEN clickTime(clock) ELSE lastTime
    /\ UNCHANGED <<page, currentRegion, player, crates, seeds, puzzle, puzzlePadInteraction,
                   gateClosed, gameTime, interactionPending, loaded, inflight, db,
                   scores, clears, walk, budget, game_saves, submitted,
                   animationFrameId, loops, initCalls, winMenu>>

\* resumeBtn click, in the pause menu: paused = false and nothing else
resumeBtn ==
    /\ page = "game"
    /\ paused /\ ~winMenu
    /\ paused' = FALSE
    /\ clock' = clickTime(clock)
    /\ UNCHANGED <<page, currentRegion, player, crates, seeds, puzzle, puzzlePadInteraction,
                   gateClosed, gameTime, interactionPending, loaded, inflight, db,
                   scores, clears, walk, budget, game_saves, submitted,
                   lastTime, animationFrameId, loops, initCalls, winMenu>>

\* the states the clock is followed from: beside a seed and beside the
\* monument, where a frame played would collect, save or win
ClockStarts == {NearSeed3, AtMonument}

InitClock ==
    \E c \in ClockStarts :
        StartAt(c) /\ budget = SessionTicks /\ game_saves = <<>> /\ submitted = <<>> /\ PageAside

NextClock ==
    \/ \E kx \in {-1, 0, 1}, ky \in {-1, 0, 1}, key \in BOOLEAN : loop(kx, ky, key)
    \/ togglePauseAt
    \/ resumeBtn

SpecClock == InitClock /\ [][NextClock]_vars

\* ------------------------------------------------- initGame, step by step
\* game.html from the moment its script has run: autoStart has called
\* initGame, which is followed through its awaits (get_avatar.php, then
\* load.php or save.php); the win menu's buttons call it again.  A pending
\* call is [newGame, awaits, snap], snap being the payload of the save it
\* awaits.

\* "if (!animationFrameId) loop(lastTime)" starting a loop regardless
loopStartsAlways(id, n) == n + 1

\* initGame, last line: if (!animationFrameId) loop(lastTime); the number
\* of callbacks of loop pending after it
loopStarts(id, n) == IF id THEN n ELSE n + 1

\* restartWin click, the button being on the win menu: paused is set and
\* initGame(true) runs up to its first await - the pending callback of
\* loop is cancelled and the call waits for get_avatar.php
restartWin ==
    /\ page = "game"
    /\ winMenu
    /\ Len(initCalls) < MaxCalls
    /\ paused' = TRUE
    /\ loops' = IF animationFrameId THEN loops - 1 ELSE loops
    /\ animationFrameId' = FALSE
    /\ initCalls' = Append(initCalls, [newGame |-> TRUE, awaits |-> "avatar", snap |-> NoSave])
    /\ clock' = clickTime(clock)
    /\ UNCHANGED <<page, currentRegion, player, crates, seeds, puzzle, puzzlePadInteraction,
                   gateClosed, gameTime, interactionPending, loaded, inflight, db,
                   scores, clears, walk, budget, game_saves, submitted, lastTime, winMenu>>

\* initGame from "Sync gates" on, pz being the puzzles then and rest the
\* calls left pending
initGameEnds(pz, rest) ==
    /\ gateClosed' = [q \in 0..3 |-> ~pz[q].solved]
    /\ paused' = FALSE
    /\ winMenu' = FALSE
    /\ clock' = clickTime(clock)
    /\ lastTime' = clickTime(clock)
    /\ loops' = loopStarts(animationFrameId, loops)
    /\ animationFrameId' = TRUE
    /\ initCalls' = rest

\* get_avatar.php answers call i: generateContent, then either load.php
\* is asked or the new game is set up and saved
avatarAnswered(i) ==
    /\ page = "game"
    /\ initCalls[i].awaits = "avatar"
    /\ seeds' = GeneratedSeeds
    /\ crates' = GeneratedAllCrates
    /\ puzzle' = GeneratedPuzzles
    /\ gateClosed' = [q \in 0..3 |-> TRUE]
    /\ clears' = [q \in 0..3 |-> 0]
    /\ walk' = 0
    /\ IF initCalls[i].newGame
       THEN /\ currentRegion' = 0
            /\ player' = [x |-> StartX, y |-> StartY]
            /\ gameTime' = 0
            /\ initCalls' = [initCalls EXCEPT ![i].awaits = "save",
                               ![i].snap = SavePayload(0, StartX, StartY, 0, GeneratedSeeds,
                                                       GeneratedAllCrates, GeneratedPuzzles,
                                                       puzzlePadInteraction)]
       ELSE /\ UNCHANGED <<currentRegion, player, gameTime>>
            /\ initCalls' = [initCalls EXCEPT ![i].awaits = "load"]
    /\ UNCHANGED <<page, puzzlePadInteraction, paused, interactionPending, loaded, inflight,
                   db, scores, budget, game_saves, submitted, clock, lastTime,
                   animationFrameId, loops, winMenu>>

\* load.php answers call i with resp (LoadError for a failed request):
\* loadGame restores and initGame ends, or loadGame returns false and the
\* new game is set up and saved
loadAnswered(i, resp) ==
    LET row == "player_name" \in DOMAIN resp
        seedsOk == row /\ IsArray(resp.seeds)
        cratesOk == seedsOk /\ IsArray(resp.crates)
        ok == cratesOk /\ IsArray(resp.puzzles)
        lp == IF ok THEN LoadedPuzzlesFrom(0, puzzle, puzzlePadInteraction, resp)
              ELSE [pz |-> puzzle, inter |-> puzzlePadInteraction]
        sd == IF seedsOk THEN LoadedSeeds(resp) ELSE seeds
        cr == IF cratesOk THEN LoadedCrates(resp) ELSE crates
        rest == SubSeq(initCalls, 1, i - 1) \o SubSeq(initCalls, i + 1, Len(initCalls))
    IN  /\ page = "game"
        /\ initCalls[i].awaits = "load"
        /\ loaded' = ok
        /\ seeds' = sd
        /\ crates' = cr
        /\ puzzle' = lp.pz
        /\ puzzlePadInteraction' = lp.inter
        /\ IF ok
           THEN /\ currentRegion' = resp.region
                /\ player' = [x |-> resp.pos_x, y |-> resp.pos_y]
                /\ gameTime' = resp.game_time
                /\ initGameEnds(lp.pz, rest)
           ELSE /\ currentRegion' = 0
                /\ player' = [x |-> StartX, y |-> StartY]
                /\ gameTime' = 0
                /\ initCalls' = [initCalls EXCEPT ![i].awaits = "save",
                                   ![i].snap = SavePayload(0, StartX, StartY, 0, sd, cr,
                                                           lp.pz, lp.inter)]
                /\ UNCHANGED <<gateClosed, paused, winMenu, clock, lastTime, loops,
                               animationFrameId>>
        /\ UNCHANGED <<page, interactionPending, inflight, db, scores, clears, walk, budget,
                       game_saves, submitted>>

\* save.php answers the save call i awaits, the row stored or not, and
\* initGame ends
saveAnswered(i, saved) ==
    /\ page = "game"
    /\ initCalls[i].awaits = "save"
    /\ IF saved
       THEN \E stored \in SaveRows(initCalls[i].snap) :
                db' = [row |-> stored, sent |-> initCalls[i].snap]
       ELSE db' = db
    /\ initGameEnds(puzzle, SubSeq(initCalls, 1, i - 1) \o SubSeq(initCalls, i + 1, Len(initCalls)))
    /\ UNCHANGED <<page, currentRegion, player, crates, seeds, puzzle, puzzlePadInteraction,
                   gameTime, interactionPending, loaded, inflight, scores, clears, walk,
                   budget, game_saves, submitted>>

\* The page loaded with startMode "resume" or "new", the player's latest
\* row (if any) saved beside the last seed or beside the monument.
InitPage ==
    /\ page = "game"
    /\ currentRegion = 0
    /\ player = [x |-> StartX, y |-> StartY]
    /\ crates = GeneratedAllCrates
    /\ seeds = GeneratedSeeds
    /\ puzzle = GeneratedPuzzles
    /\ puzzlePadInteraction = FreshInteraction
    /\ gateClosed = [q \in 0..3 |-> TRUE]
    /\ paused = FALSE
    /\ gameTime = 0
    /\ interactionPending = FALSE
    /\ loaded = FALSE
    /\ inflight = {}
    /\ scores = <<>>
    /\ clears = [q \in 0..3 |-> 0]
    /\ walk = 0
    /\ db \in {NoSave} \cup
              UNION {StoredBy(SnapshotAt(c)) : c \in {NearSeed3, AtMonument}}
    /\ budget = SessionTicks
    /\ game_saves = <<>> /\ submitted = <<>>
    /\ clock = 0
    /\ lastTime = 0
    /\ animationFrameId = FALSE
    /\ loops = 0
    /\ \E newGame \in BOOLEAN :
         initCalls = <<[newGame |-> newGame, awaits |-> "avatar", snap |-> NoSave]>>
    /\ winMenu = FALSE

NextPage ==
    \/ \E kx \in {-1, 0, 1}, ky \in {-1, 0, 1}, key \in BOOLEAN : loop(kx, ky, key)
    \/ \E i \in 1..Len(initCalls) : avatarAnswered(i)
    \/ \E i \in 1..Len(initCalls) : \E resp \in {LoadResponse(db), LoadError} : loadAnswered(i, resp)
    \/ \E i \in 1..Len(initCalls), saved \in BOOLEAN : saveAnswered(i, saved)
    \/ restartWin
    \* menuWinBtn click: pause and save, as quitBtn does; once the save is
    \* answered the page is left for the menu (the initGame(true) before
    \* that does not get past its first await)
    \/ winMenu /\ Quit
    \/ SaveArrives
    \/ SaveFails

SpecPage == InitPage /\ [][NextPage]_vars

\* ----------------------------------------------------------- the server
\* save.php and load.php over the table game_saves: its rows in the order
\* of insertion, each with its AUTO_INCREMENT save_id.
\* the avatar names saves are sent under: the default, another, and one
\* that load.php takes for a missing parameter
Names == {PlayerName, "Orin", "null"}

\* load.php: !$playerName || $playerName === 'null' || $playerName === 'undefined'
NameMissing(name) == name \in {"", "0", "null", "undefined"}

\* load.php: SELECT * FROM game_saves WHERE player_name = :player_name
\* ORDER BY save_id DESC LIMIT 1, or null
loadPhp(t, name) ==
    IF NameMissing(name) THEN NoSave
    ELSE LET found == {i \in 1..Len(t) : t[i].row.player_name = name}
         IN  IF found = {} THEN NoSave
             ELSE t[CHOOSE i \in found : \A j \in found : t[j].save_id <= t[i].save_id].row

\* save.php stores a request body
savePhp(body) ==
    /\ Len(game_saves) < MaxRows
    /\ \E stored \in SaveRows(body) :
         /\ game_saves' = Append(game_saves, [save_id |-> Len(game_saves) + 1, row |-> stored])
         /\ db' = IF body.player_name = PlayerName THEN [row |-> stored, sent |-> body] ELSE db
    /\ UNCHANGED <<page, simVars, inflight, budget, submitted, pageVars, winMenu>>

\* a client saves one of the states of play under one of the names
SaveRequest ==
    \E c \in SavedStates, n \in Names : savePhp([SnapshotAt(c) EXCEPT !.player_name = n])

InitTable == InitLoad /\ db = NoSave

SpecTable == InitTable /\ [][SaveRequest]_vars

\* ------------------------------------------------------------ properties
Keys == {-1, 0, 1}
\* the displacements movePlayer is called with on one axis
Deltas == {PlayerSpeed, -PlayerSpeed, DiagSpeed, -DiagSpeed}

\* C1: in a session begun as a new game the player is never in a region
\* k > 0 while the puzzle of one of the regions 0..k-1 is unsolved.
C1_RegionsInOrder ==
    \A k \in 0..3 : k < currentRegion => puzzle[k].solved

\* C2: while the gate of the current region is closed, no axis step of
\* movePlayer commits a player position whose rectangle overlaps the gate,
\* whatever keys are held and whether or not the step pushes a crate.
C2_ClosedGateRejects ==
    (HasGate(currentRegion) /\ gateClosed[currentRegion]) =>
        \A kx \in Keys, ky \in Keys :
            LET r == currentRegion
                h == moveHorizontal(player.x, player.y, crates[r], r, TRUE,
                                    kx * axisStep(kx, ky))
                v == moveVertical(h.x, player.y, h.crates, r, TRUE, ky * axisStep(kx, ky))
            IN  /\ h.x # player.x => ~rectOverlap(PlayerRect(h.x, player.y), GateRect(r))
                /\ v.y # player.y => ~rectOverlap(PlayerRect(h.x, v.y), GateRect(r))

\* C3: within a session no step (a frame with any keys, a pause) turns the
\* solved flag of a puzzle from true to false.
C3_SolvedMonotonic ==
    [][\A r \in 0..3 : puzzle[r].solved => puzzle'[r].solved]_vars

\* the plates are solved although not every plate is pressed any more
C3_SolvedAndReleased ==
    /\ currentRegion = 0
    /\ puzzle[0].solved
    /\ ~(\A i \in 1..Len(Plates) : checkPressed(Plates[i], player.x, player.y, crates[0]))

\* positions update may be called with: where the player is, and on every
\* plate, pad, target and teleporter of the region
Probes(r) ==
    {player} \cup
    (CASE r = 0 -> {Plates[i] : i \in 1..Len(Plates)}
       [] r = 1 -> {Pads[i] : i \in 1..Len(Pads)}
       [] r = 2 -> {[x |-> Targets(2)[i].x, y |-> Targets(2)[i].y] : i \in 1..Len(Targets(2))}
       [] r = 3 -> {Teleporters[i] : i \in 1..Len(Teleporters)})

\* C4: once a puzzle is solved its update changes nothing of the puzzle
\* (solved, index, the transient flags, the active flags) and does not call
\* the completion effect, at any probed position and for either value of the
\* interact input; the completion effect has run at most once per puzzle.
C4_UpdateAfterSolved ==
    /\ \A r \in 0..3 : clears[r] <= 1
    /\ \A r \in 0..3 : puzzle[r].solved =>
         \A p \in Probes(r), key \in BOOLEAN :
             PuzzleUpdate(r, puzzle, puzzlePadInteraction, p.x, p.y, crates[r], key)
               = [pz |-> puzzle, inter |-> puzzlePadInteraction, clear |-> FALSE]

\* the pads are solved and the player stands on a pad again
C4_OnPadAfterSolved ==
    /\ currentRegion = 1
    /\ puzzle[1].solved
    /\ clears[1] = 1
    /\ touchedPadIndex(player.x, player.y) # -1

\* C5: for each puzzle, setState(getState()) on a freshly generated puzzle
\* of the same kind gives the puzzle's state back, the index and the two
\* transient flags of the sequence puzzle and the active flags of the
\* teleporters included.
C5_PuzzleRoundTrip ==
    \A r \in 0..3 :
        SetState(r, GeneratedPuzzle(r), FreshInteraction,
                 GetState(r, puzzle[r], puzzlePadInteraction))
          = [pz |-> puzzle[r],
             inter |-> IF r = 1 THEN puzzlePadInteraction ELSE FreshInteraction]

\* the sequence puzzle in mid-dwell: the player stands on a pad after the
\* first, the target, and both transient flags are set
C5_MidDwell ==
    /\ currentRegion = 1
    /\ ~puzzle[1].solved
    /\ puzzle[1].index > 0
    /\ puzzle[1].index \in padsUnderPlayer(player.x, player.y)
    /\ puzzlePadInteraction.enteredCorrectPad
    /\ puzzlePadInteraction.lastHitIndex = puzzle[1].index

\* C6: a resume that loads a stored save gives a session whose region,
\* player position, game time, seeds, crates and puzzle states are those of
\* the state the save was sent in.
C6_SessionRoundTrip ==
    [][(page = "menu" /\ page' = "game" /\ loaded') => LiveSnapshot' = db.sent]_vars

\* the rectangle lies in the region, on no obstacle and on no crate but c
FreeFor(rect, r, cs, c) ==
    /\ rect.x >= 0 /\ rect.y >= 0
    /\ rect.x + rect.w <= RegionW /\ rect.y + rect.h <= RegionH
    /\ \A i \in 1..Len(Obstacles(r)) : ~rectOverlap(rect, Obstacles(r)[i])
    /\ \A j \in 1..Len(cs) : j = c \/ ~rectOverlap(rect, CrateRect(cs[j]))

OnObstacle(rect, r) ==
    \E i \in 1..Len(Obstacles(r)) : rectOverlap(rect, Obstacles(r)[i])

\* c is the crate a step to the candidate rectangle meets: the first, in
\* the order of the region's list, that the rectangle overlaps
Meets(rect, cs, c) ==
    /\ rectOverlap(rect, CrateRect(cs[c]))
    /\ \A j \in 1..(c - 1) : ~rectOverlap(rect, CrateRect(cs[j]))

\* C7: for a step by d on either axis whose candidate player rectangle meets
\* a crate: if the crate advanced by d overlaps an obstacle, the player and
\* every crate stay where they are on that axis; if the advanced crate is
\* free, the player and that crate move by d on that axis and nothing else
\* moves.
C7_CratePush ==
    LET r == currentRegion
        cs == crates[r]
        gc == HasGate(r) /\ gateClosed[r]
    IN  \A d \in Deltas : \A c \in 1..Len(cs) :
          /\ Meets(PlayerRect(player.x + d, player.y), cs, c) =>
               LET adv == Rect(cs[c].x + d, cs[c].y, TILE, TILE)
                   h == moveHorizontal(player.x, player.y, cs, r, gc, d)
               IN  /\ OnObstacle(adv, r) => h.x = player.x /\ h.crates = cs
                   /\ FreeFor(adv, r, cs, c) =>
                        h.x = player.x + d /\ h.crates = [cs EXCEPT ![c].x = @ + d]
          /\ Meets(PlayerRect(player.x, player.y + d), cs, c) =>
               LET adv == Rect(cs[c].x, cs[c].y + d, TILE, TILE)
                   v == moveVertical(player.x, player.y, cs, r, gc, d)
               IN  /\ OnObstacle(adv, r) => v.y = player.y /\ v.crates = cs
                   /\ FreeFor(adv, r, cs, c) =>
                        v.y = player.y + d /\ v.crates = [cs EXCEPT ![c].y = @ + d]

\* the crate of region 0 has been pushed one step to the right, the player
\* with it, and the next step to the right would put it on the obstacle
C7_PushedToObstacle ==
    /\ currentRegion = 0
    /\ player = [AtObstacle.at EXCEPT !.x = @ + PlayerSpeed]
    /\ crates[0][1] = [AtObstacle.crates[0][1] EXCEPT !.x = @ + PlayerSpeed]
    /\ Meets(PlayerRect(player.x + PlayerSpeed, player.y), crates[0], 1)
    /\ OnObstacle(Rect(crates[0][1].x + PlayerSpeed, crates[0][1].y, TILE, TILE), 0)

\* every crate inside its region, on no obstacle, on no other crate
CratesApart ==
    \A r \in Regions : \A i \in 1..Len(crates[r]) :
        FreeFor(CrateRect(crates[r][i]), r, crates[r], i)

\* crate i of region r is pushed in this step: the step is a frame played
\* in r, and on each axis the crate moves it moves by the player's
\* displacement, met by the player's candidate rectangle
PushedInStep(r, i) ==
    /\ r = currentRegion /\ page = "game" /\ ~paused /\ gameTime' # gameTime
    /\ \E kx \in Keys, ky \in Keys :
         LET dx == kx * axisStep(kx, ky)
             dy == ky * axisStep(kx, ky)
             c == crates[r][i]
             c1 == crates'[r][i]
         IN  /\ c1.x \in {c.x, c.x + dx}
             /\ c1.y \in {c.y, c.y + dy}
             /\ c1.x # c.x => rectOverlap(PlayerRect(player.x + dx, player.y), CrateRect(c))
             /\ c1.y # c.y =>
                  \E x1 \in {player.x, player.x + dx} :
                      rectOverlap(PlayerRect(x1, player.y + dy),
                                  CrateRect([x |-> c1.x, y |-> c.y]))

\* C8: in play from a new game every crate lies inside its region and
\* overlaps no obstacle and no other crate of its region, and a crate's
\* position changes only in a frame in which the player pushes it in the
\* current region.
C8_Crates ==
    /\ []CratesApart
    /\ [][\A r \in Regions : \A i \in 1..Len(crates[r]) :
            crates'[r][i] # crates[r][i] => PushedInStep(r, i)]_vars

\* the second crate of region 2 has been pushed along, two pixels below
\* the first
C8_CrateBesideCrate ==
    /\ currentRegion = 2
    /\ crates[2][2].x # Stacked.crates[2][2].x
    /\ crates[2][1].y + TILE + 2 * U = crates[2][2].y
    /\ crates[2][1].x < crates[2][2].x + TILE
    /\ crates[2][2].x < crates[2][1].x + TILE

\* C9: when pads 0, 1 and 2 have been entered and left one after the other,
\* starting from index 0 and touching no other pad in between, the sequence
\* puzzle is solved.
C9_SequenceSolves ==
    walk = 2 * Len(Pads) => puzzle[1].solved

MatchedToDistinctTargets(cs, r) ==
    /\ Len(cs) = Len(Targets(r))
    /\ \E f \in [1..Len(cs) -> 1..Len(Targets(r))] :
         /\ \A i \in 1..Len(cs), j \in 1..Len(cs) : f[i] = f[j] => i = j
         /\ \A i \in 1..Len(cs) : rectOverlap(CrateRect(cs[i]), Targets(r)[f[i]])

\* C11: the crate puzzle of region 2 becomes solved only in a step after
\* which its crates are as many as its targets and can be matched to
\* pairwise distinct targets each overlaps; with one target covered only it
\* does not become solved.
C11_SolvedByDistinctTargets ==
    [][(~puzzle[2].solved /\ puzzle'[2].solved) =>
          MatchedToDistinctTargets(crates'[2], 2)]_vars

\* the step is a frame played in region r
TickIn(r) == page = "game" /\ ~paused /\ currentRegion = r /\ gameTime' # gameTime

\* the step is a frame in which the interact key is newly pressed: found
\* held, and not held in the frame before
NewlyPressed == ~interactionPending /\ interactionPending'

\* at the end of the step the player stands in region 3 on teleporter i
OnTeleporter(i) ==
    /\ currentRegion' = 3
    /\ rectOverlap(PlayerRect(player'.x, player'.y), SizedTile(Teleporters[i]))

\* C12: the active flag of a teleporter changes only in a frame played in
\* region 3 in which the interact key is newly pressed and the player
\* overlaps that teleporter: never while the key stays held, never for a
\* teleporter the player does not overlap; and while the puzzle is unsolved
\* every such frame flips the flag, so a key held over several frames
\* flips an overlapped teleporter exactly once.
C12_EdgeTriggered ==
    [][\A i \in 1..Len(Teleporters) :
         /\ puzzle'[3].active[i] # puzzle[3].active[i] =>
              TickIn(3) /\ NewlyPressed /\ OnTeleporter(i)
         /\ (TickIn(3) /\ NewlyPressed /\ OnTeleporter(i) /\ ~puzzle[3].solved) =>
              puzzle'[3].active[i] # puzzle[3].active[i]]_vars

\* two frames after both teleporters were off the player stands on the
\* second with the interact key held: it is on, flipped once
C12_HeldOnTeleporter ==
    /\ currentRegion = 3
    /\ gameTime = (AtFirstTeleporter.frames + 2) * FrameDt
    /\ interactionPending
    /\ rectOverlap(PlayerRect(player.x, player.y), SizedTile(Teleporters[2]))
    /\ puzzle[3].active = <<FALSE, TRUE>>

\* C13: after every frame the teleporter puzzle is solved exactly when all
\* its teleporters are active together; an interact on each of the two,
\* both off at first, solves it.
C13_SolvedIffAllActive ==
    puzzle[3].solved <=> \A i \in 1..Len(Teleporters) : puzzle[3].active[i]

\* the second teleporter was switched on, then the first in a later frame
\* of its own: the puzzle is solved and its completion effect has run
C13_BothSwitchedOn ==
    /\ currentRegion = 3
    /\ gameTime > AtTeleporter.frames * FrameDt
    /\ rectOverlap(PlayerRect(player.x, player.y), SizedTile(Teleporters[1]))
    /\ puzzle[3].active = <<TRUE, TRUE>>
    /\ puzzle[3].solved
    /\ clears[3] = 1
    /\ ~gateClosed[3]

\* C14 as the code has it: once the teleporter puzzle is solved no step
\* changes it; an interact on an overlapped teleporter leaves that
\* teleporter on and the puzzle solved.
C14_SolvedSwitchesFrozen ==
    [][puzzle[3].solved => puzzle'[3] = puzzle[3]]_vars

\* C14: with both teleporters on and the puzzle solved, a frame in which
\* the interact key is newly pressed while the player overlaps a teleporter
\* switches that teleporter off, and solved becomes false again.
C14_RetoggleUnsolves ==
    [][\A i \in 1..Len(Teleporters) :
         (puzzle[3].solved /\ TickIn(3) /\ NewlyPressed /\ OnTeleporter(i)) =>
             (~puzzle'[3].active[i] /\ ~puzzle'[3].solved)]_vars

\* three frames after the last teleporter was reached the puzzle is solved
\* and the player still stands on that teleporter, the interact key down
C14_PressedOnSolved ==
    /\ currentRegion = 3
    /\ gameTime >= (AtTeleporter.frames + 3) * FrameDt
    /\ interactionPending
    /\ rectOverlap(PlayerRect(player.x, player.y), SizedTile(Teleporters[1]))
    /\ puzzle[3].solved
    /\ puzzle[3].active = <<TRUE, TRUE>>

\* the rectangles that press plates in region 0: the player's and those of
\* the region's crates
Pressers(pl, cs) ==
    {PlayerRect(pl.x, pl.y)} \cup {CrateRect(cs[i]) : i \in 1..Len(cs)}

\* every plate is overlapped by one of the pressers
AllPlatesPressed(pl, cs) ==
    \A i \in 1..Len(Plates) :
        \E rect \in Pressers(pl, cs) :
            rectOverlap(rect, Rect(Plates[i].x, Plates[i].y, TILE, TILE))

\* C15: while the plate puzzle is unsolved, it becomes solved in exactly
\* the frames played in region 0 after whose move every plate is
\* overlapped by the player's rectangle or by a crate of the region; plates
\* pressed in earlier frames do not count, so it stays unsolved while fewer
\* than all plates are pressed together.
C15_SolvesWhenAllPressed ==
    [][(~puzzle[0].solved /\ currentRegion' = 0) =>
          (puzzle'[0].solved <=> (TickIn(0) /\ AllPlatesPressed(player', crates'[0])))]_vars

\* the plates are solved in the frame the player stepped onto the first
\* plate, the second held down by the crate alone
C15_SolvedByPlayerAndCrate ==
    /\ currentRegion = 0
    /\ puzzle[0].solved
    /\ clears[0] = 1
    /\ crates[0] = AtPlates.crates[0]
    /\ rectOverlap(PlayerRect(player.x, player.y), SizedTile(Plates[1]))
    /\ ~rectOverlap(PlayerRect(player.x, player.y), SizedTile(Plates[2]))
    /\ rectOverlap(CrateRect(crates[0][1]), SizedTile(Plates[2]))
    /\ gameTime = (AtPlates.frames + 2) * FrameDt

\* C16: after every frame, and after a session is begun as a new game or
\* from a save, the gate of each gated region (0..3, each with a puzzle)
\* is closed exactly when the region's puzzle is unsolved.
C16_GateFollowsPuzzle ==
    \A r \in 0..3 : HasGate(r) => (gateClosed[r] <=> (HasPuzzle(r) /\ ~puzzle[r].solved))

\* a session resumed from a save taken after the teleporters were solved
\* in play: the gate of region 3 is open, as are those of the regions before
C16_ResumedWithOpenGate ==
    /\ page = "game"
    /\ loaded
    /\ currentRegion = 3
    /\ puzzle[3].solved
    /\ \A r \in 0..3 : ~gateClosed[r]

\* where movePlayer puts the player for the keys (kx, ky) in this state
MovedTo(kx, ky) ==
    movePlayer(player.x, player.y, crates[currentRegion], currentRegion,
               HasGate(currentRegion) /\ gateClosed[currentRegion],
               kx * axisStep(kx, ky), ky * axisStep(kx, ky))

\* the edges of region r the player's rectangle at (x, y) extends past,
\* numbered as in regionEdges: 1 top, 2 right, 3 bottom, 4 left
EdgesPast(x, y) ==
    {e \in 1..4 : CASE e = 1 -> y < 0
                    [] e = 2 -> x + PlayerW > RegionW
                    [] e = 3 -> y + PlayerH > RegionH
                    [] e = 4 -> x < 0}

\* the player at (x, y) of region r is clamped to edge e
ClampedTo(e, x, y) ==
    CASE e = 1 -> y = 0
      [] e = 2 -> x = RegionW - PlayerW
      [] e = 3 -> y = RegionH - PlayerH
      [] e = 4 -> x = 0

\* C17 as the code has it: in a frame whose move takes the player's
\* rectangle past edges of the current region none of which has a
\* neighbour, the region does not change and the player is clamped to each
\* of those edges, at the right edge to x = region width - player width.
C17_HardEdgeClamps ==
    page = "game" =>
    \A kx \in Keys, ky \in Keys :
        LET r == currentRegion
            m == MovedTo(kx, ky)
            sw == checkRegionSwitch(r, m.x, m.y)
            past == EdgesPast(m.x, m.y)
        IN  (past # {} /\ \A e \in past : regionEdges(r)[e] = NoNeighbour) =>
                /\ sw.region = r
                /\ ~sw.moved
                /\ \A e \in past : ClampedTo(e, sw.x, sw.y)

\* C17: in a frame whose move takes the player's rectangle past an edge of
\* the current region that has no neighbour, the region does not change and
\* the player is clamped to that edge.
C17_HardEdgeKeepsRegion ==
    page = "game" =>
    \A kx \in Keys, ky \in Keys :
        LET r == currentRegion
            m == MovedTo(kx, ky)
            sw == checkRegionSwitch(r, m.x, m.y)
        IN  \A e \in EdgesPast(m.x, m.y) :
                regionEdges(r)[e] = NoNeighbour =>
                    sw.region = r /\ ClampedTo(e, sw.x, sw.y)

\* the player in the bottom right corner of region 4, clamped to the right
\* and to the bottom edge of the world
C17_ClampedInCorner ==
    /\ currentRegion = 4
    /\ player = [x |-> RegionW - PlayerW, y |-> RegionH - PlayerH]
    /\ gameTime > AtWorldEnd.frames * FrameDt

\* C18 as the code has it: a move past the right edge of a region with a
\* right neighbour switches to that neighbour and puts the player at x = 2;
\* a move past the left edge of a region with a left neighbour switches to
\* that neighbour and puts the player at x = width - player width - 2; in
\* both, y is the previous y (the regions are of one height, the scale is
\* 1) rounded to the nearest integer and clamped to
\* [2, height - player height - 2].
C18_EntersAtInset ==
    page = "game" =>
    \A kx \in Keys, ky \in Keys :
        LET r == currentRegion
            m == MovedTo(kx, ky)
            sw == checkRegionSwitch(r, m.x, m.y)
            y1 == clamp(MathRound(m.y), 2 * U, RegionH - PlayerH - 2 * U)
        IN  /\ (m.x + PlayerW > RegionW /\ regionEdges(r)[2] # NoNeighbour) =>
                 sw = [region |-> regionEdges(r)[2], x |-> 2 * U, y |-> y1, moved |-> TRUE]
            /\ (m.x < 0 /\ regionEdges(r)[4] # NoNeighbour) =>
                 sw = [region |-> regionEdges(r)[4], x |-> RegionW - PlayerW - 2 * U,
                       y |-> y1, moved |-> TRUE]

\* C18: a move past the right (left) edge of a region with a neighbour
\* there switches to the neighbour and puts the player at x = 2
\* (x = width - player width - 2), with y the previous y scaled to the new
\* region's height and clamped to [2, height - player height - 2].
C18_EntersAtScaledY ==
    page = "game" =>
    \A kx \in Keys, ky \in Keys :
        LET r == currentRegion
            m == MovedTo(kx, ky)
            sw == checkRegionSwitch(r, m.x, m.y)
            y1 == clamp(m.y * (RegionH \div RegionH), 2 * U, RegionH - PlayerH - 2 * U)
        IN  /\ (m.x + PlayerW > RegionW /\ regionEdges(r)[2] # NoNeighbour) =>
                 sw = [region |-> regionEdges(r)[2], x |-> 2 * U, y |-> y1, moved |-> TRUE]
            /\ (m.x < 0 /\ regionEdges(r)[4] # NoNeighbour) =>
                 sw = [region |-> regionEdges(r)[4], x |-> RegionW - PlayerW - 2 * U,
                       y |-> y1, moved |-> TRUE]

\* region 0 entered from region 1 on a diagonal step: the player at the
\* inset from the right edge, the y of the step, 224.12, rounded to 224
C18_EnteredFromRight ==
    /\ currentRegion = 0
    /\ player = Px(RegionW \div U - PlayerW \div U - 2, 224)
    /\ gameTime = (Entered1.frames + 1) * FrameDt

\* the step emits a completion report
WinFires == scores' # scores

\* C19: a completion report is emitted, and the session frozen with it,
\* only in a frame at whose end every seed of every region is collected,
\* the current region is region 4 and the player's rectangle overlaps the
\* monument; with every seed collected and the player in region 4 off the
\* monument none is emitted.
C19_WinOnlyWhenComplete ==
    [][WinFires =>
         /\ page = "game" /\ ~paused /\ gameTime' # gameTime
         /\ \A r \in Regions : \A i \in 1..Len(seeds'[r]) : seeds'[r][i]
         /\ currentRegion' = 4
         /\ rectOverlap(PlayerRect(player'.x, player'.y),
                        Rect(15 * TILE, 9 * TILE, TILE, TILE))
         /\ paused'
         /\ scores' = Append(scores, [player_name |-> PlayerName,
                                      completion_time |-> gameTime'])]_vars

\* the win has fired: one completion report, the session frozen, the player
\* on the monument in region 4 with every seed collected
C19_Won ==
    /\ Len(scores) = 1
    /\ paused
    /\ currentRegion = 4
    /\ allCollected(seeds)
    /\ rectOverlap(PlayerRect(player.x, player.y), monument)
    /\ scores[1].completion_time = gameTime

\* C20: once the win has fired, no later step of the session (frames and
\* pause-button clicks, in any order) emits a second completion report
\* while the player stays on the monument.
C20_WinFiresOnce ==
    [][(/\ Len(scores) > 0
        /\ currentRegion = 4 /\ currentRegion' = 4
        /\ rectOverlap(PlayerRect(player.x, player.y), monument)
        /\ rectOverlap(PlayerRect(player'.x, player'.y), monument))
       => scores' = scores]_vars

\* the step is a frame played in region r whose move, for some keys held,
\* puts the player's rectangle on seed i of that region
MovedOntoSeed(r, i) ==
    /\ TickIn(r)
    /\ \E kx \in Keys, ky \in Keys :
         LET m == MovedTo(kx, ky)
             sw == checkRegionSwitch(r, m.x, m.y)
         IN  /\ crates'[r] = m.crates
             /\ player' = [x |-> sw.x, y |-> sw.y]
             /\ currentRegion' = sw.region
             /\ rectOverlap(PlayerRect(m.x, m.y), SeedTiles(r)[i])

\* C21: within a session no step uncollects a seed, and a seed becomes
\* collected only in a frame played in the seed's region in which the
\* player's rectangle, after the move, overlaps the seed.
C21_SeedsMonotonic ==
    [][\A r \in Regions : \A i \in 1..Len(seeds[r]) :
         /\ seeds[r][i] => seeds'[r][i]
         /\ (~seeds[r][i] /\ seeds'[r][i]) => MovedOntoSeed(r, i)]_vars

\* the second seed of region 3 was collected in play and the player has
\* stepped off it again; the seeds collected before are still collected
C21_CollectedAndLeft ==
    /\ currentRegion = 3
    /\ seeds = [NearSeed3.seeds EXCEPT ![3][2] = TRUE]
    /\ ~rectOverlap(PlayerRect(player.x, player.y), SeedTiles(3)[2])

\* C22: when initGame's load does not succeed (no row, a failed request,
\* an error answer, a row with a malformed column) the session starts
\* fresh: region 0, the player at the start position, game time 0, no seed
\* collected, every crate where it was generated, every puzzle in its
\* initial state; nothing of the rejected row is applied.
C22_FailedLoadStartsFresh ==
    [][(page = "menu" /\ page' = "game" /\ ~loaded') =>
          /\ currentRegion' = 0
          /\ player' = [x |-> StartX, y |-> StartY]
          /\ gameTime' = 0
          /\ seeds' = GeneratedSeeds
          /\ crates' = GeneratedAllCrates
          /\ puzzle' = GeneratedPuzzles
          /\ puzzlePadInteraction' = FreshInteraction
          /\ ~paused']_vars

\* the step answers a save request and the stored row stays as it was
RequestLost == inflight' # inflight /\ inflight' \subseteq inflight /\ db' = db

\* the step stores a row: a request is answered with the row of its
\* payload, or initGame's awaited save of a fresh start is stored
RowStored ==
    \/ \E m \in inflight : m \notin inflight' /\ db' \in StoredBy(m.snap)
    \/ page = "menu" /\ page' = "game" /\ ~loaded' /\ db' \in StoredBy(LiveSnapshot')

\* C23: a save request that fails changes nothing of the simulation and
\* neither pauses nor ends the frames; the row a later load gets changes
\* only when a save is stored, so after a failed save it is still the row
\* of the last save that succeeded.
C23_FailedSaveHarmless ==
    [][/\ RequestLost => UNCHANGED <<simVars, budget>>
       /\ LoadResponse(db') # LoadResponse(db) => RowStored]_vars

\* a session resumed at game time 0 from the row of the new game's save
\* after a frame was played: the save sent on quitting that session failed
C23_ResumedFromEarlierSave ==
    /\ page = "game"
    /\ loaded
    /\ gameTime = 0
    /\ budget < SessionTicks
    /\ db \in StoredBy(NewGameSave)
    /\ inflight = {}

\* the row a save request has just inserted
Inserted == game_saves'[Len(game_saves')].row

\* C24: load for a name returns none while nothing was saved under it, and
\* after each save the row just saved under that name; a save under
\* another name leaves what load returns for the name unchanged.
C24_LoadReturnsLatestOfPlayer ==
    [][\A n \in Names :
         /\ game_saves = <<>> => loadPhp(game_saves, n) = NoSave
         /\ loadPhp(game_saves', n) =
              IF Inserted.player_name = n THEN Inserted ELSE loadPhp(game_saves, n)]_vars

\* the crates of cs the player's candidate rectangle at (x, y) overlaps
\* that cannot advance by (dx, dy) in region r
BlockedCrates(x, y, cs, r, dx, dy) ==
    {i \in 1..Len(cs) :
        /\ rectOverlap(PlayerRect(x, y), CrateRect(cs[i]))
        /\ ~canRectMoveTo(Rect(cs[i].x + dx, cs[i].y + dy, TILE, TILE), r, cs, i)}

\* C25: in play, for every choice of keys, an axis step whose candidate
\* player rectangle overlaps a crate that cannot advance (into an obstacle,
\* another crate or out of the region) moves neither the player nor any
\* crate on that axis, however many crates the candidate overlaps.
C25_BlockedCrateStops ==
    page = "game" =>
    \A kx \in Keys, ky \in Keys :
        LET r == currentRegion
            cs == crates[r]
            gc == HasGate(r) /\ gateClosed[r]
            dx == kx * axisStep(kx, ky)
            dy == ky * axisStep(kx, ky)
            h == moveHorizontal(player.x, player.y, cs, r, gc, dx)
            v == moveVertical(h.x, player.y, h.crates, r, gc, dy)
        IN  /\ (dx # 0 /\ BlockedCrates(player.x + dx, player.y, cs, r, dx, 0) # {}) =>
                h.x = player.x /\ h.crates = cs
            /\ (dy # 0 /\ BlockedCrates(h.x, player.y + dy, h.crates, r, 0, dy) # {}) =>
                v.y = player.y /\ v.crates = h.crates

\* C26: in a frame played in region 1 with the sequence unsolved, when the
\* entered flag is set and the rectangle the update takes for the player
\* overlaps neither the pad that set the flag nor any other pad, on
\* whichever side it left, the index advances by one; and the index
\* advances only so, by one, never while that pad is still overlapped or
\* the flag is not set.
C26_AdvancesOnLeaving ==
    [][(TickIn(1) /\ currentRegion' = 1 /\ ~puzzle[1].solved) =>
         LET i == puzzlePadInteraction
             rect == Rect(player'.x, player'.y, TILE, TILE)
             left == /\ i.enteredCorrectPad
                     /\ ~rectOverlap(rect, SizedTile(Pads[i.lastHitIndex + 1]))
         IN  /\ (left /\ touchedPadIndex(player'.x, player'.y) = -1) =>
                  puzzle'[1].index = puzzle[1].index + 1
             /\ puzzle'[1].index > puzzle[1].index =>
                  left /\ puzzle'[1].index = puzzle[1].index + 1]_vars

\* the edges in the order checkRegionSwitch tests them: right, left, top,
\* bottom
EdgeOrder(e) == CASE e = 2 -> 1 [] e = 4 -> 2 [] e = 1 -> 3 [] e = 3 -> 4

\* the edge of the set S tested first
FirstEdge(S) == CHOOSE e \in S : \A f \in S : EdgeOrder(e) <= EdgeOrder(f)

\* C27 as the code has it: in a frame the region changes at most once, by
\* the first edge in the order right, left, top, bottom that the moved
\* player is past and that has a neighbour, and after the change no edge
\* changes the region or clamps: the player stands inside the new region,
\* at no edge.  In a frame without a change every edge the player is past
\* clamps, two of them in a corner.
C27_OneRegionChange ==
    page = "game" =>
    \A kx \in Keys, ky \in Keys :
        LET r == currentRegion
            m == MovedTo(kx, ky)
            sw == checkRegionSwitch(r, m.x, m.y)
            past == EdgesPast(m.x, m.y)
            open == {e \in past : regionEdges(r)[e] # NoNeighbour}
        IN  /\ sw.moved <=> open # {}
            /\ sw.moved =>
                 /\ sw.region = regionEdges(r)[FirstEdge(open)]
                 /\ EdgesPast(sw.x, sw.y) = {}
                 /\ \A e \in 1..4 : ~ClampedTo(e, sw.x, sw.y)
            /\ ~sw.moved =>
                 /\ sw.region = r
                 /\ \A e \in past : ClampedTo(e, sw.x, sw.y)

\* C27: in a frame at most one edge takes effect, the first in the order
\* right, left, top, bottom that the moved player is past; every other
\* edge the player is past neither changes the region nor clamps.
C27_OnlyFirstEdgeActs ==
    page = "game" =>
    \A kx \in Keys, ky \in Keys :
        LET r == currentRegion
            m == MovedTo(kx, ky)
            sw == checkRegionSwitch(r, m.x, m.y)
            past == EdgesPast(m.x, m.y)
        IN  past # {} =>
              /\ sw.region \in {r, regionEdges(r)[FirstEdge(past)]}
              /\ \A e \in past \ {FirstEdge(past)} : ~ClampedTo(e, sw.x, sw.y)

\* region 1 entered at its top left corner: from three pixels below the
\* top edge of region 0 a step up, a step right and a diagonal step past
\* both the right and the top edge
C27_CrossedAtCorner ==
    /\ currentRegion = 1
    /\ player = Px(2, 2)
    /\ gameTime = (AtCorner0.frames + 3) * FrameDt

\* the snapshots of the save requests the step issues
Issued == {q.snap : q \in inflight' \ inflight}

\* C28: a frame in which a seed becomes collected issues a save request
\* whose snapshot has that seed collected; a frame in which the current
\* region changes issues a save request whose snapshot carries the new
\* region and the position the player was put at; a frame with neither
\* issues none.
C28_SavesOnSeedAndRegion ==
    [][\A r \in Regions : TickIn(r) =>
         /\ \A i \in 1..Len(seeds[r]) :
              (~seeds[r][i] /\ seeds'[r][i]) =>
                  \E s \in Issued : s.region = r /\ s.seeds[r][i]
         /\ currentRegion' # r =>
              \E s \in Issued : /\ s.region = currentRegion'
                                /\ s.pos_x = player'.x /\ s.pos_y = player'.y
         /\ (seeds' = seeds /\ currentRegion' = r) => Issued = {}]_vars

\* the second seed of region 3 has been collected in play and a save
\* request with it collected is in flight
C28_SavedOnCollecting ==
    /\ currentRegion = 3
    /\ seeds = [NearSeed3.seeds EXCEPT ![3][2] = TRUE]
    /\ \E q \in inflight : q.snap.region = 3 /\ q.snap.seeds = seeds

\* C29: the frame in which a puzzle's solved flag turns true issues a save
\* request whose snapshot has that puzzle solved, and the frame in which
\* the win fires issues a save request.
C29_SavesOnSolvedAndWin ==
    [][\A r \in Regions : TickIn(r) =>
         /\ \A q \in Regions :
              (HasPuzzle(q) /\ ~puzzle[q].solved /\ puzzle'[q].solved) =>
                  \E s \in Issued : s.puzzles[q].solved
         /\ WinFires => Issued # {}]_vars

\* C30: a frame at whose end the win condition holds for the first time
\* (every seed collected, region 4, the player's rectangle on the monument,
\* no report sent before) freezes the session and emits one report with
\* the player's name and the game time of that frame, without waiting for
\* its answer; the end of a report's request, resolved or rejected, changes
\* nothing of the simulation and sends nothing.
C30_WinPausesAndReports ==
    [][/\ (/\ \E r \in Regions : TickIn(r)
           /\ scores = <<>>
           /\ allCollected(seeds') /\ currentRegion' = LastRegion
           /\ rectOverlap(PlayerRect(player'.x, player'.y), monument))
          => /\ paused'
             /\ scores' = <<[player_name |-> PlayerName, completion_time |-> gameTime']>>
             /\ submitted' = submitted
       /\ submitted' # submitted => UNCHANGED <<page, simVars, inflight, db>>]_vars

\* the win has fired and its report was rejected: the session is frozen at
\* the game time reported
C30_ReportRejected ==
    /\ Len(scores) = 1
    /\ submitted = <<FALSE>>
    /\ paused
    /\ scores[1] = [player_name |-> PlayerName, completion_time |-> gameTime]

\* the step is a callback of loop: the clock moves to the next frame
FrameStep == clock' # clock /\ clock' % FrameDt = 0

C32_ResizedRowLoads ==
    [][(page = "menu" /\ page' = "game") =>
         LET st == db.row
         IN  /\ loaded'
             /\ \A r \in Regions :
                  /\ Len(seeds'[r]) = Len(GeneratedSeeds[r])
                  /\ \A i \in 1..Len(seeds'[r]) :
                       seeds'[r][i] = (/\ r \in DOMAIN st.seeds
                                       /\ i <= Len(st.seeds[r])
                                       /\ st.seeds[r][i])
                  /\ Len(crates'[r]) = Len(GeneratedCrates(r))
                  /\ \A i \in 1..Len(crates'[r]) :
                       crates'[r][i] = IF r \in DOMAIN st.crates /\ i <= Len(st.crates[r])
                                       THEN st.crates[r][i]
                                       ELSE GeneratedCrates(r)[i]
             /\ \A r \in 0..3 :
                  puzzle'[r].solved = (r \in DOMAIN st.puzzles /\ st.puzzles[r].solved)]_vars

\* resumed from a row saved at the monument with one seed fewer per region
\* and the crates of the first three regions only: the second seed of
\* region 3 is uncollected again, the others and the crates are restored
C32_ResumedFromShorterRow ==
    /\ loaded /\ page = "game"
    /\ currentRegion = AtMonument.region
    /\ seeds[3] = <<TRUE, FALSE>>
    /\ seeds[1] = GeneratedSeeds[1]
    /\ crates = AtMonument.crates
    /\ \A r \in 0..3 : puzzle[r].solved

\* C34: between ticks the player's rectangle overlaps no static obstacle
\* of the current region, whether the last tick walked, pushed a crate or
\* changed region.
C34_ClearOfObstacles ==
    page = "game" =>
        \A i \in 1..Len(Obstacles(currentRegion)) :
            ~rectOverlap(PlayerRect(player.x, player.y), Obstacles(currentRegion)[i])

\* C35: between ticks the player's rectangle overlaps no crate of the
\* current region, after any moves, pushes (also of an attempt touching
\* two crates) and region changes.
C35_ClearOfCrates ==
    page = "game" =>
        \A i \in 1..Len(crates[currentRegion]) :
            ~rectOverlap(PlayerRect(player.x, player.y), CrateRect(crates[currentRegion][i]))

\* C36: between ticks the player's rectangle lies inside the current
\* region: 0 <= x <= width - player width, 0 <= y <= height - player
\* height.
C36_InsideRegion ==
    page = "game" =>
        /\ 0 <= player.x /\ player.x <= RegionW - PlayerW
        /\ 0 <= player.y /\ player.y <= RegionH - PlayerH

\* walked down past the lower edge of a region, which has no neighbour
\* there, and set back onto the edge by the same tick
C36_SetBackOntoEdge ==
    /\ page = "game"
    /\ player.y = RegionH - PlayerH
    /\ budget < MaxTicks

\* C37: of two saves of one session that both succeed, the one requested
\* later is the one a later load returns: when save.php stores a row, the
\* row it supersedes as the player's latest was not requested after it
\* (the game time sent tells the requests apart; it never decreases in a
\* session).
C37_StoredInRequestOrder ==
    [][(db # NoSave /\ db' # db) => db'.sent.game_time >= db.sent.game_time]_vars

\* a call of initGame(true) ends in this step
EndsNewGame ==
    \E i \in 1..Len(initCalls) :
        /\ initCalls[i].newGame
        /\ initCalls[i].awaits = "save"
        /\ initCalls' = SubSeq(initCalls, 1, i - 1) \o SubSeq(initCalls, i + 1, Len(initCalls))

\* C38: when a call of initGame(true) has completed, the simulation is in
\* the state of a first new game: region 0, the start position, time 0,
\* every seed uncollected, the crates where they are generated, every
\* puzzle as generated, the pad flags enteredCorrectPad = false and
\* lastHitIndex = -1, every gate closed.
C38_RestartIsNewGame ==
    [][EndsNewGame =>
         /\ currentRegion' = 0
         /\ player' = [x |-> StartX, y |-> StartY]
         /\ gameTime' = 0
         /\ seeds' = GeneratedSeeds
         /\ crates' = GeneratedAllCrates
         /\ puzzle' = GeneratedPuzzles
         /\ puzzlePadInteraction' = FreshInteraction
         /\ gateClosed' = [q \in 0..3 |-> TRUE]]_vars

\* C39: whatever calls of initGame are pending or have ended, at most one
\* callback of loop is scheduled, and animationFrameId is set exactly
\* while one is.
C39_OneLoop ==
    /\ loops <= 1
    /\ page = "game" => (animationFrameId <=> loops = 1)

\* the win menu's restart clicked twice: the first call has ended and
\* started the loop, which has played a frame, while the second call is
\* still pending
C39_LoopDuringSecondCall ==
    /\ page = "game"
    /\ scores # <<>>
    /\ Len(initCalls) = 1 /\ initCalls[1].newGame
    /\ loops = 1 /\ ~paused /\ ~winMenu
    /\ budget = 0

\* a call of initGame(false), which loads, has not ended
LoadPending == \E i \in 1..Len(initCalls) : ~initCalls[i].newGame

\* a frame of loop() is played in this step
Played == FrameStep /\ ~paused

\* C33 (load): from the start of initGame(false) to its end no callback of
\* loop is scheduled and no frame is played.
\* C33 (save): a save in flight blocks no frame - whenever the loop is
\* scheduled and the game is not paused the next frame can be played - a
\* frame that requests a save is played in full, and the payload of each
\* request is the state at the request: the time, the crates and the
\* seeds of the frame that sent it.
C33_LoadAwaitedSavesNot ==
    /\ [](LoadPending => loops = 0)
    /\ [][LoadPending => ~Played]_vars
    /\ []((/\ page = "game" /\ ~paused /\ loops = 1 /\ inflight # {}
           /\ budget > 0 /\ clock < ClockFrames * FrameDt)
          => ENABLED loop(0, 0, FALSE))
    /\ [][\A m \in inflight' \ inflight :
            /\ m.snap.game_time = gameTime'
            /\ m.snap.crates = crates'
            /\ m.snap.seeds = seeds'
            /\ ~m.quit => (Played /\ gameTime' = gameTime + (clock' - lastTime))]_vars

\* resumed from the row saved beside the last seed: the first frame
\* collected the seed and requested a save, and a second frame has been
\* played while that request is unanswered
C33_PlayedOnWhileSaving ==
    /\ page = "game" /\ loaded
    /\ \E m \in inflight : ~m.quit /\ m.snap.game_time < gameTime
    /\ db # NoSave /\ db.sent.game_time < gameTime

====
